---------------------------- MODULE Spec2Model ----------------------------
(***************************************************************************)
(* Model of the DNS provider abstraction of dstack-ingress-vpc:            *)
(* scripts/dns_providers/base.py (the shared set_* reconciliation          *)
(* helpers), cloudflare.py and linode.py (zone resolution, the zone cache  *)
(* and the four primitives get/create/delete/create_caa) and namecheap.py  *)
(* (the same primitives as read-all, rewrite-all over getHosts/setHosts).  *)
(*                                                                         *)
(* A domain name is the sequence of its labels, <<"a","example","com">>    *)
(* being a.example.com; str.endswith("." + zone) is then "is a proper      *)
(* label suffix" and len(str) is the sum of the label lengths plus dots.   *)
(* A record value is [s, q]: the space-separated words s wrapped in q      *)
(* pairs of literal double quotes, so that f'"{x}"', x.strip('"') and      *)
(* x.startswith('"') are computed and not assumed.                         *)
(*                                                                         *)
(* Every handler is one action.  The handler's code is a chain of          *)
(* operators over a context c: the adapter fields, the provider's stored   *)
(* records, the request counter n, the request log, the calls of the four  *)
(* primitives the handler made, the list it fetched and whether an         *)
(* exception escaped.  The n-th request of a handler fails (transport      *)
(* error, HTTP error or API error envelope) exactly when n is in c.fails,  *)
(* which the action draws from FailSets.                                   *)
(***************************************************************************)
EXTENDS Naturals, Sequences, FiniteSets, TLC

VARIABLES
    provider,      \* the adapter the factory built: "cloudflare" | "linode" | "namecheap"
    zonePages,     \* the account's zone listing, page by page: Seq(Seq([id, name]))
    records,       \* the provider's stored records, in listing order
    nextId,        \* the provider's next record id
    zone_id,       \* adapter field self.zone_id    (NoZone when None)
    zone_domain,   \* adapter field self.zone_domain (NoDomain when None)
    call,          \* the last handler run: its name, arguments, result, failed requests
    reqLog,        \* the requests that handler sent, in order
    pre,           \* provider records and adapter cache as they were before that handler
    prevCall,      \* the handler run before it
    nOps,          \* handlers run so far
    environ,       \* os.environ: each variable is None (unset) or holds a string
    factory,       \* the last create_provider run: its selector and how it ended
    procs,         \* two processes, each with an adapter of its own, inside set_a_record
    certman        \* the run of certman.py's main: its arguments, its steps, its exit code

vars == <<provider, zonePages, records, nextId, zone_id, zone_domain,
          call, reqLog, pre, prevCall, nOps, environ, factory, procs, certman>>

-----------------------------------------------------------------------------
(* Bounds of the model *)

\* handlers run on one adapter instance
MaxOps == 2
\* stored records at the start
MaxRecs == 2
\* requests of one handler that may fail
MaxFails == 1
\* the highest request index of a handler that may fail
MaxReq == 8
\* zones owned by the account
MaxZones == 3

-----------------------------------------------------------------------------
(* Values *)

NoZone == "none"
NoDomain == << >>
NoId == 0
NoData == [flags |-> 0, tag |-> "none", value |-> [s |-> <<"none">>, q |-> 0]]
NoType == "ANY"

\* f'"{content}"'
Quote(v) == [v EXCEPT !.q = @ + 1]
\* value.strip('"')
Strip(v) == [v EXCEPT !.q = 0]
\* content.startswith('"')
StartsWithQuote(v) == v.q > 0
\* the text of one word w, unquoted
Plain(w) == [s |-> <<w>>, q |-> 0]

RECURSIVE StrLen(_)
\* len(name) of the dotted string
StrLen(name) ==
    IF name = << >> THEN 0
    ELSE IF Len(name) = 1 THEN Len(Head(name))
    ELSE Len(Head(name)) + 1 + StrLen(Tail(name))

\* domain.endswith("." + zone)
EndsWithDot(domain, zone) ==
    /\ Len(domain) > Len(zone)
    /\ SubSeq(domain, Len(domain) - Len(zone) + 1, Len(domain)) = zone

RECURSIVE Flatten(_)
Flatten(pages) ==
    IF pages = << >> THEN << >> ELSE Head(pages) \o Flatten(Tail(pages))

-----------------------------------------------------------------------------
(* Requests *)

\* whether the next request of the handler gets a successful response
Ok(c) == (c.n + 1) \notin c.fails

\* one request sent and logged; ok is the success flag _make_request returns
Send(c, kind, zone, arg, ok) ==
    [c EXCEPT !.n = @ + 1,
              !.log = Append(@, [kind |-> kind, zone |-> zone, arg |-> arg, ok |-> ok])]

Ret(c, v) == [c |-> c, ret |-> v]


-----------------------------------------------------------------------------
(* The provider's side of the API *)

AllZones == Flatten(zonePages)

\* the zone object with this id, as GET domains/{id} answers it
ZoneById(id) == CHOOSE z \in {AllZones[i] : i \in DOMAIN AllZones} : z.id = id

HasZone(id) == \E i \in DOMAIN AllZones : AllZones[i].id = id

\* a provider that keeps one record per name and type, the new one replacing
\* the old: a variant that C20 must tell apart from the providers modelled
StoredReplacing(c, zone, name, type, content, ttl, proxied, data) ==
    [c EXCEPT !.recs = Append(SelectSeq(@, LAMBDA r :
                                  ~(r.zone = zone /\ r.name = name /\ r.type = type)),
                              [id |-> c.nextId, zone |-> zone, name |-> name,
                               type |-> type, content |-> content, ttl |-> ttl,
                               proxied |-> proxied, data |-> data]),
              !.nextId = @ + 1]

\* POST .../records answered with success: the provider stores the record
Stored(c, zone, name, type, content, ttl, proxied, data) ==
    [c EXCEPT !.recs = Append(@, [id |-> c.nextId, zone |-> zone, name |-> name,
                                  type |-> type, content |-> content, ttl |-> ttl,
                                  proxied |-> proxied, data |-> data]),
              !.nextId = @ + 1]

HasRecord(c, zone, id) ==
    \E i \in DOMAIN c.recs : c.recs[i].zone = zone /\ c.recs[i].id = id

\* DELETE .../records/{id} answered with success: the provider drops the record
Removed(c, zone, id) ==
    [c EXCEPT !.recs = SelectSeq(@, LAMBDA r : ~(r.zone = zone /\ r.id = id))]

-----------------------------------------------------------------------------
(* CloudflareDNSProvider *)

NoInfo == [id |-> NoZone, name |-> NoDomain]

RECURSIVE cf_scan_zones(_, _, _, _)
\* the for loop of _get_zone_info over one page: an exact match returns at
\* once, a dot-suffix match longer than the best so far replaces it
cf_scan_zones(zones, i, domain, best) ==
    IF i > Len(zones) THEN [exact |-> NoInfo, best |-> best]
    ELSE LET zone == zones[i] IN
         IF domain = zone.name
         THEN [exact |-> [id |-> zone.id, name |-> zone.name], best |-> best]
         ELSE IF EndsWithDot(domain, zone.name) /\ StrLen(zone.name) > best.len
         THEN cf_scan_zones(zones, i + 1, domain,
                  [len |-> StrLen(zone.name), id |-> zone.id, name |-> zone.name])
         ELSE cf_scan_zones(zones, i + 1, domain, best)

RECURSIVE cf_zone_pages(_, _, _, _, _)
\* the while loop of _get_zone_info: one GET zones?page=N per iteration
cf_zone_pages(c, domain, page, total_pages, best) ==
    IF page > total_pages
    THEN Ret(c, IF best.id # NoZone /\ best.name # NoDomain
                THEN [id |-> best.id, name |-> best.name] ELSE NoInfo)
    ELSE LET c1 == Send(c, "list_zones", NoZone, [page |-> page], Ok(c))
             zones == zonePages[page]
             scan == cf_scan_zones(zones, 1, domain, best)
         IN IF ~Ok(c) THEN Ret(c1, NoInfo)
            ELSE IF zones = << >> /\ page = 1 THEN Ret(c1, NoInfo)
            ELSE IF scan.exact # NoInfo THEN Ret(c1, scan.exact)
            ELSE cf_zone_pages(c1, domain, page + 1, Len(zonePages), scan.best)

cf_get_zone_info(c, domain) ==
    cf_zone_pages(c, domain, 1, 1, [len |-> 0, id |-> NoZone, name |-> NoDomain])

\* the end of _ensure_zone_id, zone_info being what _get_zone_info returned: the
\* pair is stored when there is one, and self.zone_id is returned either way
cf_store_zone_info(zone_info) ==
    IF zone_info.ret # NoInfo
    THEN Ret([zone_info.c EXCEPT !.zone_id = zone_info.ret.id,
                                 !.zone_domain = zone_info.ret.name],
             zone_info.ret.id)
    ELSE Ret(zone_info.c, zone_info.c.zone_id)

cf_ensure_zone_id(c, domain) ==
    IF /\ c.zone_id # NoZone /\ c.zone_domain # NoDomain
       /\ (domain = c.zone_domain \/ EndsWithDot(domain, c.zone_domain))
    THEN Ret(c, c.zone_id)
    ELSE cf_store_zone_info(cf_get_zone_info(c, domain))

\* DNSRecord built from one element of the response's result list
cf_record(r) ==
    [id |-> r.id, name |-> r.name, type |-> r.type, content |-> r.content,
     ttl |-> r.ttl, proxied |-> r.proxied, data |-> r.data]

RECURSIVE MapCf(_)
MapCf(s) == IF s = << >> THEN << >> ELSE <<cf_record(Head(s))>> \o MapCf(Tail(s))

\* get_dns_records after zone_id = self._ensure_zone_id(name), z being that
\* call's outcome
cf_get_dns_records_in(z, name, record_type) ==
    LET c1 == Send(z.c, "get_records", z.ret, [name |-> name, type |-> record_type], Ok(z.c))
        found == SelectSeq(z.c.recs, LAMBDA r :
                     /\ r.zone = z.ret /\ r.name = name
                     /\ (record_type = NoType \/ r.type = record_type))
    IN IF z.ret = NoZone THEN Ret(z.c, << >>)
       ELSE IF ~Ok(z.c) THEN Ret(c1, << >>)
       ELSE Ret(c1, MapCf(found))

cf_get_dns_records(c, name, record_type) ==
    cf_get_dns_records_in(cf_ensure_zone_id(c, name), name, record_type)

cf_create_dns_record_in(z, record) ==
    LET content == IF record.type = "TXT" THEN Quote(record.content) ELSE record.content
        proxied == IF record.type = "CNAME" THEN record.proxied ELSE FALSE
        data == [type |-> record.type, name |-> record.name, content |-> content,
                 ttl |-> record.ttl, proxied |-> proxied,
                 has_proxied |-> (record.type = "CNAME")]
        c1 == Send(z.c, "create", z.ret, data, Ok(z.c))
    IN IF z.ret = NoZone THEN Ret(z.c, FALSE)
       ELSE IF ~Ok(z.c) THEN Ret(c1, FALSE)
       ELSE Ret(Stored(c1, z.ret, record.name, record.type, content, record.ttl,
                       proxied, NoData), TRUE)

cf_create_dns_record(c, record) ==
    cf_create_dns_record_in(cf_ensure_zone_id(c, record.name), record)

cf_delete_dns_record_in(z, record_id) ==
    LET ok == Ok(z.c) /\ HasRecord(z.c, z.ret, record_id)
        c1 == Send(z.c, "delete", z.ret, [id |-> record_id], ok)
    IN IF z.ret = NoZone THEN Ret(z.c, FALSE)
       ELSE IF ~ok THEN Ret(c1, FALSE)
       ELSE Ret(Removed(c1, z.ret, record_id), TRUE)

cf_delete_dns_record(c, record_id, domain) ==
    cf_delete_dns_record_in(cf_ensure_zone_id(c, domain), record_id)

cf_create_caa_record_in(z, caa_record) ==
    LET clean_value == Strip(caa_record.value)
        data == [type |-> "CAA", name |-> caa_record.name, ttl |-> caa_record.ttl,
                 data |-> [flags |-> caa_record.flags, tag |-> caa_record.tag,
                           value |-> clean_value]]
        c1 == Send(z.c, "create", z.ret, data, Ok(z.c))
    IN IF z.ret = NoZone THEN Ret(z.c, FALSE)
       ELSE IF ~Ok(z.c) THEN Ret(c1, FALSE)
       ELSE Ret(Stored(c1, z.ret, caa_record.name, "CAA", Plain("caa"),
                       caa_record.ttl, FALSE, data.data), TRUE)

cf_create_caa_record(c, caa_record) ==
    cf_create_caa_record_in(cf_ensure_zone_id(c, caa_record.name), caa_record)

-----------------------------------------------------------------------------
(* LinodeDNSProvider *)

RECURSIVE linode_scan_domains(_, _, _, _)
\* the for loop of _get_zone_id over the domains of the one response it reads
linode_scan_domains(domains, i, domain, best) ==
    IF i > Len(domains) THEN best.id
    ELSE LET domain_obj == domains[i] IN
         IF domain = domain_obj.name THEN domain_obj.id
         ELSE IF EndsWithDot(domain, domain_obj.name) /\ StrLen(domain_obj.name) > best.len
         THEN linode_scan_domains(domains, i + 1, domain,
                  [len |-> StrLen(domain_obj.name), id |-> domain_obj.id])
         ELSE linode_scan_domains(domains, i + 1, domain, best)

\* GET domains is sent once, with no page parameter: the response read is the
\* first page of the account's domains
linode_get_zone_id(c, domain) ==
    LET c1 == Send(c, "list_zones", NoZone, [page |-> 1], Ok(c))
        domains == zonePages[1]
    IN IF ~Ok(c) THEN Ret(c1, NoZone)
       ELSE Ret(c1, linode_scan_domains(domains, 1, domain, [len |-> 0, id |-> NoZone]))

linode_get_subdomain(c, fqdn, domain_id) ==
    LET ok == Ok(c) /\ HasZone(domain_id)
        c1 == Send(c, "zone_detail", domain_id, [fqdn |-> fqdn], ok)
        domain_name == ZoneById(domain_id).name
    IN IF ~ok THEN Ret(c1, fqdn)
       ELSE IF fqdn = domain_name THEN Ret(c1, << >>)
       ELSE IF EndsWithDot(fqdn, domain_name)
       THEN Ret(c1, SubSeq(fqdn, 1, Len(fqdn) - Len(domain_name)))
       ELSE Ret(c1, fqdn)

\* the end of _ensure_zone_id, r being what _get_zone_id returned: self.zone_id
\* is assigned first, self.zone_domain when the zone's details are answered
linode_store_zone_id(r, domain) ==
    LET c1 == [r.c EXCEPT !.zone_id = r.ret]
        ok == Ok(c1) /\ HasZone(r.ret)
        c2 == Send(c1, "zone_detail", r.ret, [fqdn |-> domain], ok)
    IN IF r.ret = NoZone THEN Ret(c1, NoZone)
       ELSE IF ok
       THEN Ret([c2 EXCEPT !.zone_domain = ZoneById(r.ret).name], r.ret)
       ELSE Ret(c2, r.ret)

linode_ensure_zone_id(c, domain) ==
    IF /\ c.zone_id # NoZone /\ c.zone_domain # NoDomain
       /\ (domain = c.zone_domain \/ EndsWithDot(domain, c.zone_domain))
    THEN Ret(c, c.zone_id)
    ELSE linode_store_zone_id(linode_get_zone_id(c, domain), domain)

\* DNSRecord built from one element of the response's data list
\* str(record_data.get("id")): the id as a string, and the string "None", which
\* is not an absent id, when the listing gives the record no id
StrNone == 1000
linode_str_id(id) == IF id = NoId THEN StrNone ELSE id

linode_record(r, name) ==
    [id |-> linode_str_id(r.id), name |-> name, type |-> r.type, content |-> r.content,
     ttl |-> r.ttl, proxied |-> FALSE,
     data |-> IF r.type = "CAA"
              THEN [flags |-> 0, tag |-> r.data.tag, value |-> Strip(r.content)]
              ELSE NoData]

RECURSIVE MapLinode(_, _)
MapLinode(s, name) ==
    IF s = << >> THEN << >>
    ELSE <<linode_record(Head(s), name)>> \o MapLinode(Tail(s), name)

linode_get_dns_records_in(z, name, record_type) ==
    LET c1 == Send(z.c, "get_records", z.ret, [name |-> name, type |-> record_type], Ok(z.c))
        sub == linode_get_subdomain(c1, name, z.ret)
        found == SelectSeq(z.c.recs, LAMBDA r :
                     /\ r.zone = z.ret /\ r.name = sub.ret
                     /\ (record_type = NoType \/ r.type = record_type))
    IN IF z.ret = NoZone THEN Ret(z.c, << >>)
       ELSE IF ~Ok(z.c) THEN Ret(c1, << >>)
       ELSE Ret(sub.c, MapLinode(found, name))

linode_get_dns_records(c, name, record_type) ==
    linode_get_dns_records_in(linode_ensure_zone_id(c, name), name, record_type)

linode_create_dns_record_in(z, record) ==
    LET sub == linode_get_subdomain(z.c, record.name, z.ret)
        target == IF record.type = "TXT" /\ ~StartsWithQuote(record.content)
                  THEN Quote(record.content) ELSE record.content
        data == [type |-> record.type, name |-> sub.ret, target |-> target,
                 ttl_sec |-> record.ttl]
        c1 == Send(sub.c, "create", z.ret, data, Ok(sub.c))
    IN IF z.ret = NoZone THEN Ret(z.c, FALSE)
       ELSE IF ~Ok(sub.c) THEN Ret(c1, FALSE)
       ELSE Ret(Stored(c1, z.ret, sub.ret, record.type, target, record.ttl,
                       FALSE, NoData), TRUE)

linode_create_dns_record(c, record) ==
    linode_create_dns_record_in(linode_ensure_zone_id(c, record.name), record)

linode_delete_dns_record_in(z, record_id) ==
    LET ok == Ok(z.c) /\ HasRecord(z.c, z.ret, record_id)
        c1 == Send(z.c, "delete", z.ret, [id |-> record_id], ok)
    IN IF z.ret = NoZone THEN Ret(z.c, FALSE)
       ELSE IF ~ok THEN Ret(c1, FALSE)
       ELSE Ret(Removed(c1, z.ret, record_id), TRUE)

linode_delete_dns_record(c, record_id, domain) ==
    linode_delete_dns_record_in(linode_ensure_zone_id(c, domain), record_id)

linode_create_caa_record_in(z, caa_record) ==
    LET sub == linode_get_subdomain(z.c, caa_record.name, z.ret)
        clean_value == Strip(caa_record.value)
        data == [type |-> "CAA", name |-> sub.ret, tag |-> caa_record.tag,
                 target |-> clean_value, ttl_sec |-> caa_record.ttl]
        c1 == Send(sub.c, "create", z.ret, data, Ok(sub.c))
    IN IF z.ret = NoZone THEN Ret(z.c, FALSE)
       ELSE IF ~Ok(sub.c) THEN Ret(c1, FALSE)
       ELSE Ret(Stored(c1, z.ret, sub.ret, "CAA", clean_value, caa_record.ttl, FALSE,
                       [flags |-> 0, tag |-> caa_record.tag, value |-> clean_value]),
                TRUE)

linode_create_caa_record(c, caa_record) ==
    linode_create_caa_record_in(linode_ensure_zone_id(c, caa_record.name), caa_record)

-----------------------------------------------------------------------------
(* NamecheapDNSProvider *)

\* _get_domain_info: the last two labels of the name (NoDomain when there are
\* fewer than two)
nc_get_domain_info(domain) ==
    IF Len(domain) < 2 THEN NoDomain
    ELSE SubSeq(domain, Len(domain) - 1, Len(domain))

\* the account's domain that an SLD/TLD pair names
OwnsDomain(sld_tld) == \E i \in DOMAIN AllZones : AllZones[i].name = sld_tld
DomainId(sld_tld) ==
    (CHOOSE z \in {AllZones[i] : i \in DOMAIN AllZones} : z.name = sld_tld).id

\* int(parts[0]) of the flags words in use
IntOf(w) == IF w = "0" THEN 0 ELSE 128

\* the name of a host element: "@" is the domain itself, a name that does not
\* end in the domain gets it appended
nc_record_name(host_name, sld_tld) ==
    IF host_name = <<"@">> THEN sld_tld
    ELSE IF EndsWithDot(host_name, sld_tld) THEN host_name
    ELSE host_name \o sld_tld

\* DNSRecord built from one host element; the Address of a CAA host is split
\* into flags, tag and value
nc_record(r, sld_tld) ==
    [id |-> r.id, name |-> nc_record_name(r.name, sld_tld), type |-> r.type,
     content |-> r.content, ttl |-> r.ttl, proxied |-> FALSE,
     data |-> IF r.type = "CAA" /\ Len(r.content.s) >= 3
              THEN [flags |-> IntOf(r.content.s[1]), tag |-> r.content.s[2],
                    value |-> [s |-> SubSeq(r.content.s, 3, Len(r.content.s)),
                               q |-> r.content.q]]
              ELSE NoData]

RECURSIVE MapNc(_, _)
MapNc(s, sld_tld) ==
    IF s = << >> THEN << >>
    ELSE <<nc_record(Head(s), sld_tld)>> \o MapNc(Tail(s), sld_tld)

nc_get_dns_records(c, name, record_type) ==
    LET sld_tld == nc_get_domain_info(name)
        ok == Ok(c) /\ OwnsDomain(sld_tld)
        c1 == Send(c, "getHosts", sld_tld, [name |-> name, type |-> record_type], ok)
        hosts == SelectSeq(c.recs, LAMBDA r :
                     /\ r.zone = DomainId(sld_tld)
                     /\ (record_type = NoType \/ r.type = record_type))
    IN IF sld_tld = NoDomain THEN Ret(c, << >>)
       ELSE IF ~ok THEN Ret(c1, << >>)
       ELSE Ret(c1, MapNc(hosts, sld_tld))

RECURSIVE nc_store_hosts(_, _, _, _)
\* setHosts answered with success: the hosts sent are the domain's host records
nc_store_hosts(c, zone, hosts, i) ==
    IF i > Len(hosts) THEN c
    ELSE nc_store_hosts(
             Stored(c, zone, hosts[i].HostName, hosts[i].RecordType, hosts[i].Address,
                    hosts[i].TTL, FALSE, NoData),
             zone, hosts, i + 1)

\* an element of the list given to _set_dns_records: a dict, or a DNSRecord
\* object, on which record.get raises AttributeError
HostDict(d) == [is_dict |-> TRUE, rec |-> d]
HostObject(r) == [is_dict |-> FALSE, rec |-> r]

RECURSIVE MapHostObject(_)
MapHostObject(s) ==
    IF s = << >> THEN << >> ELSE <<HostObject(Head(s))>> \o MapHostObject(Tail(s))

RECURSIVE MapRec(_)
MapRec(s) == IF s = << >> THEN << >> ELSE <<Head(s).rec>> \o MapRec(Tail(s))

nc_set_dns_records(c, sld_tld, hosts) ==
    LET ok == Ok(c) /\ OwnsDomain(sld_tld)
        c1 == Send(c, "setHosts", sld_tld, [hosts |-> MapRec(hosts)], ok)
        kept == [c1 EXCEPT !.recs = SelectSeq(@, LAMBDA r : r.zone # DomainId(sld_tld))]
    IN IF \E i \in DOMAIN hosts : ~hosts[i].is_dict
       THEN Ret([c EXCEPT !.raised = TRUE], FALSE)
       ELSE IF ~ok THEN Ret(c1, FALSE)
       ELSE Ret(nc_store_hosts(kept, DomainId(sld_tld), MapRec(hosts), 1), TRUE)

\* create_dns_record after existing_records = self.get_dns_records(record.name),
\* g being that call's outcome
nc_create_dns_record_in(g, record) ==
    LET sld_tld == nc_get_domain_info(record.name)
        hostname == IF record.name = sld_tld THEN <<"@">>
                    ELSE SubSeq(record.name, 1, Len(record.name) - 2)
        filtered_records == SelectSeq(g.ret, LAMBDA r :
                                ~(r.name = record.name /\ r.type = record.type))
        new_record == [HostName |-> hostname, RecordType |-> record.type,
                       Address |-> record.content, TTL |-> record.ttl]
    IN nc_set_dns_records(g.c, sld_tld,
           MapHostObject(filtered_records) \o <<HostDict(new_record)>>)

nc_create_dns_record(c, record) ==
    IF nc_get_domain_info(record.name) = NoDomain THEN Ret(c, FALSE)
    ELSE nc_create_dns_record_in(nc_get_dns_records(c, record.name, NoType), record)

nc_delete_dns_record_in(g, record_id, domain) ==
    LET sld_tld == nc_get_domain_info(domain)
        filtered_records == SelectSeq(g.ret, LAMBDA r : r.id # record_id)
    IN nc_set_dns_records(g.c, sld_tld, MapHostObject(filtered_records))

nc_delete_dns_record(c, record_id, domain) ==
    IF nc_get_domain_info(domain) = NoDomain THEN Ret(c, FALSE)
    ELSE nc_delete_dns_record_in(nc_get_dns_records(c, domain, NoType), record_id, domain)

\* a create_caa_record that went through create_dns_record, as the other
\* adapters' do
nc_create_caa_record_as_host(c, caa_record) ==
    nc_create_dns_record(c, [name |-> caa_record.name, type |-> "CAA",
                             content |-> caa_record.value, ttl |-> caa_record.ttl])

\* no request: a warning is printed and True returned
nc_create_caa_record(c, caa_record) == Ret(c, TRUE)

-----------------------------------------------------------------------------
(* DNSProvider: the four primitives, dispatched on the adapter *)

\* one call of a primitive, as the caller made it
Called(c, op, arg) == [c EXCEPT !.calls = Append(@, [op |-> op, arg |-> arg])]

get_dns_records(c, name, record_type) ==
    LET c0 == Called(c, "get", [name |-> name, type |-> record_type]) IN
    IF provider = "cloudflare" THEN cf_get_dns_records(c0, name, record_type)
    ELSE IF provider = "linode" THEN linode_get_dns_records(c0, name, record_type)
    ELSE nc_get_dns_records(c0, name, record_type)

create_dns_record(c, record) ==
    LET c0 == Called(c, "create", record) IN
    IF provider = "cloudflare" THEN cf_create_dns_record(c0, record)
    ELSE IF provider = "linode" THEN linode_create_dns_record(c0, record)
    ELSE nc_create_dns_record(c0, record)

delete_dns_record(c, record_id, domain) ==
    LET c0 == Called(c, "delete", [id |-> record_id, name |-> domain]) IN
    IF provider = "cloudflare" THEN cf_delete_dns_record(c0, record_id, domain)
    ELSE IF provider = "linode" THEN linode_delete_dns_record(c0, record_id, domain)
    ELSE nc_delete_dns_record(c0, record_id, domain)

create_caa_record(c, caa_record) ==
    LET c0 == Called(c, "create_caa", caa_record) IN
    IF provider = "cloudflare" THEN cf_create_caa_record(c0, caa_record)
    ELSE IF provider = "linode" THEN linode_create_caa_record(c0, caa_record)
    ELSE nc_create_caa_record(c0, caa_record)

\* DNSRecord(id=None, name, type, content, ttl, proxied)
DNSRecord(name, type, content, ttl, proxied) ==
    [id |-> NoId, name |-> name, type |-> type, content |-> content, ttl |-> ttl,
     proxied |-> proxied, data |-> NoData]

\* CAARecord(name, flags, tag, value, ttl)
CAARecord(name, flags, tag, value, ttl) ==
    [name |-> name, flags |-> flags, tag |-> tag, value |-> value, ttl |-> ttl]

-----------------------------------------------------------------------------
(* DNSProvider: the shared set_* helpers of base.py *)

\* the final create with its result dropped, the operation reporting success:
\* a faulty variant that C17 must tell apart from the code
create_result_dropped(l, new_record) ==
    IF l.c.raised THEN Ret(l.c, FALSE)
    ELSE IF l.ret THEN Ret(l.c, TRUE)
    ELSE Ret(create_dns_record(l.c, new_record).c, TRUE)

\* what follows the for loop of set_a_record, set_cname_record and
\* set_txt_record, l being the loop's outcome: nothing when it returned True
\* (or an exception escaped), else return self.create_dns_record(new_record)
create_unless_found(l, new_record) ==
    IF l.c.raised THEN Ret(l.c, FALSE)
    ELSE IF l.ret THEN Ret(l.c, TRUE)
    ELSE create_dns_record(l.c, new_record)

RECURSIVE set_a_loop_unguarded(_, _, _, _, _)
\* the loop without its `if record.id`: a faulty variant that C22 must tell
\* apart from the code
set_a_loop_unguarded(c, existing_records, i, name, ip_address) ==
    IF c.raised \/ i > Len(existing_records) THEN Ret(c, FALSE)
    ELSE LET record == existing_records[i] IN
         IF record.content = ip_address THEN Ret(c, TRUE)
         ELSE set_a_loop_unguarded(delete_dns_record(c, record.id, name).c,
                                   existing_records, i + 1, name, ip_address)

RECURSIVE set_a_loop(_, _, _, _, _)
\* the for loop of set_a_record; ret is TRUE when it returned from inside
set_a_loop(c, existing_records, i, name, ip_address) ==
    IF c.raised \/ i > Len(existing_records) THEN Ret(c, FALSE)
    ELSE LET record == existing_records[i] IN
         IF record.content = ip_address THEN Ret(c, TRUE)
         ELSE IF record.id # NoId
         THEN set_a_loop(delete_dns_record(c, record.id, name).c,
                         existing_records, i + 1, name, ip_address)
         ELSE set_a_loop(c, existing_records, i + 1, name, ip_address)

\* set_a_record after existing_records = self.get_dns_records(...), g being
\* that call's outcome
set_a_record_in(g, name, ip_address, ttl, proxied) ==
    create_unless_found(
        set_a_loop([g.c EXCEPT !.fetched = g.ret], g.ret, 1, name, ip_address),
        DNSRecord(name, "A", ip_address, ttl, proxied))

set_a_record(c, name, ip_address, ttl, proxied) ==
    set_a_record_in(get_dns_records(c, name, "A"), name, ip_address, ttl, proxied)

RECURSIVE set_cname_loop(_, _, _, _, _)
set_cname_loop(c, existing_records, i, name, content) ==
    IF c.raised \/ i > Len(existing_records) THEN Ret(c, FALSE)
    ELSE LET record == existing_records[i] IN
         IF record.content = content THEN Ret(c, TRUE)
         ELSE IF record.id # NoId
         THEN set_cname_loop(delete_dns_record(c, record.id, name).c,
                             existing_records, i + 1, name, content)
         ELSE set_cname_loop(c, existing_records, i + 1, name, content)

\* set_cname_record after existing_records = self.get_dns_records(...), g being
\* that call's outcome
set_cname_record_in(g, name, content, ttl, proxied) ==
    create_unless_found(
        set_cname_loop([g.c EXCEPT !.fetched = g.ret], g.ret, 1, name, content),
        DNSRecord(name, "CNAME", content, ttl, proxied))

set_cname_record(c, name, content, ttl, proxied) ==
    set_cname_record_in(get_dns_records(c, name, "CNAME"), name, content, ttl, proxied)

\* the comparison without its quoted alternative: a faulty variant that C7
\* must tell apart from the code
txt_same_exact(record, content) == record.content = content

\* record.content == content or record.content == f'"{content}"'
txt_same(record, content) ==
    record.content = content \/ record.content = Quote(content)

RECURSIVE set_txt_loop(_, _, _, _, _)
set_txt_loop(c, existing_records, i, name, content) ==
    IF c.raised \/ i > Len(existing_records) THEN Ret(c, FALSE)
    ELSE LET record == existing_records[i] IN
         IF txt_same(record, content) THEN Ret(c, TRUE)
         ELSE IF record.id # NoId
         THEN set_txt_loop(delete_dns_record(c, record.id, name).c,
                           existing_records, i + 1, name, content)
         ELSE set_txt_loop(c, existing_records, i + 1, name, content)

\* set_txt_record after existing_records = self.get_dns_records(...), g being
\* that call's outcome
set_txt_record_in(g, name, content, ttl) ==
    create_unless_found(
        set_txt_loop([g.c EXCEPT !.fetched = g.ret], g.ret, 1, name, content),
        DNSRecord(name, "TXT", content, ttl, FALSE))

set_txt_record(c, name, content, ttl) ==
    set_txt_record_in(get_dns_records(c, name, "TXT"), name, content, ttl)

RECURSIVE set_caa_loop(_, _, _, _, _, _)
set_caa_loop(c, existing_records, i, name, tag, value) ==
    IF c.raised \/ i > Len(existing_records) THEN Ret(c, FALSE)
    ELSE LET record == existing_records[i] IN
         IF record.data # NoData /\ record.data.tag = tag
         THEN IF record.data.value = value THEN Ret(c, TRUE)
              ELSE IF record.id # NoId
              THEN set_caa_loop(delete_dns_record(c, record.id, name).c,
                                existing_records, i + 1, name, tag, value)
              ELSE set_caa_loop(c, existing_records, i + 1, name, tag, value)
         ELSE set_caa_loop(c, existing_records, i + 1, name, tag, value)

\* set_caa_record without its final create: a faulty variant that C4 must tell
\* apart from the code
caa_never_created(l, caa_record) == Ret(l.c, ~l.c.raised)

\* what follows the for loop of set_caa_record, l being the loop's outcome
create_caa_unless_found(l, caa_record) ==
    IF l.c.raised THEN Ret(l.c, FALSE)
    ELSE IF l.ret THEN Ret(l.c, TRUE)
    ELSE create_caa_record(l.c, caa_record)

\* set_caa_record after existing_records = self.get_dns_records(name, CAA)
set_caa_record_in(g, name, tag, value, flags, ttl) ==
    create_caa_unless_found(
        set_caa_loop([g.c EXCEPT !.fetched = g.ret], g.ret, 1, name, tag, value),
        CAARecord(name, flags, tag, value, ttl))

set_caa_record(c, name, tag, value, flags, ttl) ==
    set_caa_record_in(get_dns_records(c, name, "CAA"), name, tag, value, flags, ttl)

-----------------------------------------------------------------------------
(* DNSProviderFactory and the adapters' constructors *)

\* an Optional[str]: None, or the string it holds
None == << >>
Some(s) == <<s>>

\* the truth value Python gives an Optional[str]: None and "" are false
Truthy(x) == x # None /\ x # Some("")

\* str.lower() on the spellings in use
Lower(s) ==
    CASE s \in {"Cloudflare", "CLOUDFLARE"} -> "cloudflare"
      [] s \in {"Linode", "LINODE"} -> "linode"
      [] s \in {"NameCheap", "NAMECHEAP"} -> "namecheap"
      [] s = "Route53" -> "route53"
      [] OTHER -> s

\* the keys of DNSProviderFactory.PROVIDERS, in the order of the dict
PROVIDERS == <<"cloudflare", "linode", "namecheap">>

DETECT_ENV(name) ==
    CASE name = "cloudflare" -> "CLOUDFLARE_API_TOKEN"
      [] name = "linode" -> "LINODE_API_TOKEN"
      [] name = "namecheap" -> "NAMECHEAP_API_KEY"

\* a detection that wants a value in the variable: a faulty variant that C18
\* must tell apart from the code
suitable_with_value(env, name) == Truthy(env[DETECT_ENV(name)])

\* os.environ.get(cls.DETECT_ENV) is not None
suitable(env, name) == env[DETECT_ENV(name)] # None

Returned(v) == [raised |-> FALSE, ret |-> v]
Raised == [raised |-> TRUE, ret |-> ""]

RECURSIVE first_suitable(_, _)
\* for name, provider in cls.PROVIDERS.items(), then raise ValueError
first_suitable(env, i) ==
    IF i > Len(PROVIDERS) THEN Raised
    ELSE IF suitable(env, PROVIDERS[i]) THEN Returned(PROVIDERS[i])
    ELSE first_suitable(env, i + 1)

detect_provider_type(env) ==
    IF Truthy(env["DNS_PROVIDER"]) THEN Returned(env["DNS_PROVIDER"][1])
    ELSE first_suitable(env, 1)

\* what create_provider ends with: the class it looked up (chosen), the adapter
\* instance it returned (built), or the ValueError that escaped
NotBuilt(chosen) == [chosen |-> chosen, built |-> "none", raised |-> TRUE]
Built(name) == [chosen |-> name, built |-> name, raised |-> FALSE]

cf_init(env) ==
    IF ~Truthy(env["CLOUDFLARE_API_TOKEN"]) THEN NotBuilt("cloudflare")
    ELSE Built("cloudflare")

linode_init(env) ==
    IF ~Truthy(env["LINODE_API_TOKEN"]) THEN NotBuilt("linode")
    ELSE Built("linode")

\* a constructor that asks for the API key alone: a faulty variant that C19
\* must tell apart from the code
nc_init_key_only(env) ==
    IF ~Truthy(env["NAMECHEAP_API_KEY"]) THEN NotBuilt("namecheap")
    ELSE Built("namecheap")

nc_init(env) ==
    IF ~Truthy(env["NAMECHEAP_USERNAME"]) \/ ~Truthy(env["NAMECHEAP_API_KEY"])
    THEN NotBuilt("namecheap")
    ELSE Built("namecheap")

\* create_provider from provider_type.lower() on, t being the provider type
\* given or detected
create_provider_in(t, env) ==
    IF t.raised THEN NotBuilt("none")
    ELSE IF \A i \in DOMAIN PROVIDERS : PROVIDERS[i] # Lower(t.ret) THEN NotBuilt("none")
    ELSE IF Lower(t.ret) = "cloudflare" THEN cf_init(env)
    ELSE IF Lower(t.ret) = "linode" THEN linode_init(env)
    ELSE nc_init(env)

create_provider(env, provider_type) ==
    IF ~Truthy(provider_type) THEN create_provider_in(detect_provider_type(env), env)
    ELSE create_provider_in(Returned(provider_type[1]), env)

EnvNames ==
    {"DNS_PROVIDER", "CLOUDFLARE_API_TOKEN", "LINODE_API_TOKEN",
     "NAMECHEAP_API_KEY", "NAMECHEAP_USERNAME"}

\* the variables the adapter named name reads its credentials from
Credentials(name) ==
    IF name = "namecheap" THEN {"NAMECHEAP_USERNAME", "NAMECHEAP_API_KEY"}
    ELSE IF name \in {"cloudflare", "linode"} THEN {DETECT_ENV(name)}
    ELSE {}

\* an environment that holds the credentials of one adapter and nothing else
EnvironOf(name) ==
    [v \in EnvNames |-> IF v \in Credentials(name) THEN Some("secret") ELSE None]

\* create_provider(provider_type) ran to its end r
FactoryRan(provider_type, r) ==
    [op |-> "create", selector |-> provider_type, chosen |-> r.chosen,
     built |-> r.built, raised |-> r.raised]

NoFactory ==
    [op |-> "none", selector |-> None, chosen |-> "none", built |-> "none",
     raised |-> FALSE]

-----------------------------------------------------------------------------
(* certman.py: CertManager and main *)

\* the class constant CERTBOT_PACKAGE of the adapter
CERTBOT_PACKAGE(name) ==
    IF name = "cloudflare" THEN "certbot-dns-cloudflare==4.0.0"
    ELSE IF name = "linode" THEN "certbot-dns-linode"
    ELSE IF name = "namecheap" THEN "certbot-dns-namecheap==1.0.0"
    ELSE ""

\* a subprocess.run of cmd, logged among the calls
Run(c, cmd) == Called(c, "run", [cmd |-> cmd])

\* the method op returned r.ret: logged among the calls with its result
Done(op, r) == Ret(Called(r.c, op, [ok |-> r.ret]), r.ret)

\* install_plugin on the machine w: false without a package, true when the
\* plugin module is already importable, else the outcome of the pip methods;
\* once a pip method succeeded every path returns true, the `certbot plugins`
\* probe being run when the certbot executable is there
install_plugin_body(c, w) ==
    IF CERTBOT_PACKAGE(provider) = "" THEN Ret(c, FALSE)
    ELSE IF w.importable THEN Ret(c, TRUE)
    ELSE IF ~w.pip_ok THEN Ret(Run(c, "pip install"), FALSE)
    ELSE IF ~w.certbot_present THEN Ret(Run(c, "pip install"), TRUE)
    ELSE Ret(Run(Run(c, "pip install"), "certbot plugins"), TRUE)

install_plugin(c, w) == Done("install_plugin", install_plugin_body(c, w))

\* provider.validate_credentials(): the base method returns True; Namecheap
\* sends namecheap.users.getBalances and returns its success flag
validate_credentials_body(c) ==
    IF provider = "namecheap"
    THEN Ret(Send(c, "getBalances", NoDomain,
                  [command |-> "namecheap.users.getBalances"], Ok(c)), Ok(c))
    ELSE Ret(c, TRUE)

validate_credentials(c) == Done("validate_credentials", validate_credentials_body(c))

\* provider.setup_certbot_credentials(): write the file; Cloudflare and Linode
\* then resolve the zone of $DOMAIN when it is set
setup_certbot_credentials(c, w) ==
    IF ~w.write_ok THEN Ret(c, FALSE)
    ELSE IF provider = "namecheap" \/ w.env_DOMAIN = NoDomain THEN Ret(c, TRUE)
    ELSE IF provider = "cloudflare" THEN Ret(cf_ensure_zone_id(c, w.env_DOMAIN).c, TRUE)
    ELSE Ret(linode_ensure_zone_id(c, w.env_DOMAIN).c, TRUE)

setup_credentials(c, w) == Done("setup_credentials", setup_certbot_credentials(c, w))

NoCommand == << >>

\* _build_certbot_command: RuntimeError when the certbot executable is not in
\* the environment, ValueError when the credentials file does not exist
build_certbot_command(c, w, action, credentials_file_exists) ==
    IF ~w.certbot_present \/ ~credentials_file_exists
    THEN Ret([c EXCEPT !.raised = TRUE], NoCommand)
    ELSE Ret(c, <<"certbot", action>>)

\* obtain_certificate from cmd = self._build_certbot_command(...) on, b being
\* the outcome of that call
obtain_run(b, w) ==
    IF b.c.raised THEN Ret(b.c, FALSE)
    ELSE Ret(Run(b.c, "certbot certonly"),
             w.tool.kind = "exit" /\ w.tool.returncode = 0)

\* after self.setup_credentials() returned s
obtain_after_setup(s, w) ==
    IF ~s.ret THEN Ret(s.c, FALSE)
    ELSE obtain_run(build_certbot_command(s.c, w, "certonly", TRUE), w)

\* obtain_certificate with the validate_credentials test left out: a faulty
\* variant that C29 must tell apart from the code
obtain_unvalidated(v, w) == obtain_after_setup(setup_credentials(v.c, w), w)

\* after self.provider.validate_credentials() returned v
obtain_after_validate(v, w) ==
    IF ~v.ret THEN Ret(v.c, FALSE)
    ELSE obtain_after_setup(setup_credentials(v.c, w), w)

\* after self.install_plugin() returned i
obtain_after_install(i, w) ==
    IF ~i.ret THEN Ret(i.c, FALSE)
    ELSE obtain_after_validate(validate_credentials(i.c), w)

obtain_certificate(c, w) == obtain_after_install(install_plugin(c, w), w)

\* renew_certificate from cmd = self._build_certbot_command(...) on; the
\* command is built outside the try block
renew_run(b, w) ==
    IF b.c.raised THEN Ret(b.c, <<FALSE, FALSE>>)
    ELSE IF w.tool.kind # "exit" THEN Ret(Run(b.c, "certbot renew"), <<FALSE, FALSE>>)
    ELSE IF w.tool.returncode = 0 THEN Ret(Run(b.c, "certbot renew"), <<TRUE, TRUE>>)
    ELSE IF w.tool.stderr_unrecognized THEN Ret(Run(b.c, "certbot renew"), <<FALSE, FALSE>>)
    ELSE IF w.tool.stdout_no_renewals THEN Ret(Run(b.c, "certbot renew"), <<TRUE, FALSE>>)
    ELSE Ret(Run(b.c, "certbot renew"), <<FALSE, FALSE>>)

renew_after_install(i, w) ==
    IF ~i.ret THEN Ret(i.c, <<FALSE, FALSE>>)
    ELSE renew_run(build_certbot_command(i.c, w, "renew", w.credentials_file), w)

renew_certificate(c, w) == renew_after_install(install_plugin(c, w), w)

\* return success, success
Twice(r) == Ret(r.c, <<r.ret, r.ret>>)

run_action(c, w, action) ==
    IF action = "auto"
    THEN IF w.certificate_exists THEN renew_certificate(c, w)
         ELSE Twice(obtain_certificate(c, w))
    ELSE IF action = "obtain" THEN Twice(obtain_certificate(c, w))
    ELSE IF action = "renew" THEN renew_certificate(c, w)
    ELSE Ret([c EXCEPT !.raised = TRUE], <<FALSE, FALSE>>)

\* what main ends with: the exit code of the process and, when run_action
\* returned, its (success, needs_evidence)
Exited(c, code) == Ret(c, [exit |-> code, returned |-> FALSE, result |-> <<FALSE, FALSE>>])

\* main from the call of run_action on, r being that call's outcome: an
\* exception exits with 1, not success with 1, no evidence needed with 2
main_after_run_action(r) ==
    Ret(r.c, [exit |-> IF r.c.raised \/ ~r.ret[1] THEN 1
                       ELSE IF ~r.ret[2] THEN 2 ELSE 0,
              returned |-> ~r.c.raised,
              result |-> r.ret])

\* the setup action of main, i being the outcome of install_plugin
main_setup(i, w) ==
    IF ~i.ret THEN Exited(i.c, 1)
    ELSE IF ~setup_credentials(i.c, w).ret THEN Exited(setup_credentials(i.c, w).c, 1)
    ELSE Exited(setup_credentials(i.c, w).c, 0)

main(c, w, args) ==
    IF args.action = "setup" THEN main_setup(install_plugin(c, w), w)
    ELSE IF ~args.domain THEN Exited(c, 1)
    ELSE IF args.action \in {"obtain", "auto"} /\ ~args.email /\ ~w.env_CERTBOT_EMAIL
    THEN Exited(c, 1)
    ELSE main_after_run_action(run_action(c, w, args.action))

\* no run of main yet
NoMain ==
    [op |-> "none", args |-> [action |-> "none", domain |-> FALSE, email |-> FALSE],
     steps |-> << >>, exit |-> 0, returned |-> FALSE, result |-> <<FALSE, FALSE>>,
     raised |-> FALSE]

-----------------------------------------------------------------------------
(* Processes that run set_a_record side by side *)

Procs == {"p1", "p2"}

Other(p) == IF p = "p1" THEN "p2" ELSE "p1"

\* a process that has not called set_a_record yet: pc is where it is in the
\* method, existing and i the fetched list and the loop's position, racing
\* whether the other process had fetched when this one called create
NoProc ==
    [pc |-> "start", ip |-> Plain("none"), existing |-> << >>, i |-> 1,
     zone_id |-> NoZone, zone_domain |-> NoDomain, ret |-> FALSE, raised |-> FALSE,
     created |-> FALSE, racing |-> FALSE]

-----------------------------------------------------------------------------
(* Handlers as actions *)

FailSets == {F \in SUBSET (1 .. MaxReq) : Cardinality(F) <= MaxFails}

Ctx(fails) ==
    [zone_id |-> zone_id, zone_domain |-> zone_domain, recs |-> records,
     nextId |-> nextId, n |-> 0, log |-> << >>, calls |-> << >>,
     fetched |-> << >>, raised |-> FALSE, fails |-> fails]

NoArgs ==
    [name |-> NoDomain, type |-> NoType, content |-> Plain("none"), tag |-> "none",
     value |-> Plain("none"), id |-> NoId, ttl |-> 0, proxied |-> FALSE]

NoCall ==
    [op |-> "none", args |-> NoArgs, ret |-> FALSE, raised |-> FALSE,
     calls |-> << >>, fetched |-> << >>]

NoPre == [records |-> << >>, zone_id |-> NoZone, zone_domain |-> NoDomain]

\* the handler op(args) ran to its end r: the adapter and the provider are as
\* it left them, and what it did is recorded
Ran(op, args, r) ==
    /\ nOps < MaxOps
    /\ nOps' = nOps + 1
    /\ records' = r.c.recs
    /\ nextId' = r.c.nextId
    /\ zone_id' = r.c.zone_id
    /\ zone_domain' = r.c.zone_domain
    /\ reqLog' = r.c.log
    /\ call' = [op |-> op, args |-> args, ret |-> r.ret, raised |-> r.c.raised,
                calls |-> r.c.calls, fetched |-> r.c.fetched]
    /\ pre' = [records |-> records, zone_id |-> zone_id, zone_domain |-> zone_domain]
    /\ prevCall' = [call |-> call, log |-> reqLog, before |-> pre.records]
    /\ UNCHANGED <<provider, zonePages, environ, factory, procs, certman>>

SetARecord(name, ip, ttl, proxied, fails) ==
    Ran("set_a", [NoArgs EXCEPT !.name = name, !.type = "A", !.content = ip,
                                !.ttl = ttl, !.proxied = proxied],
        set_a_record(Ctx(fails), name, ip, ttl, proxied))

SetCnameRecord(name, content, ttl, proxied, fails) ==
    Ran("set_cname", [NoArgs EXCEPT !.name = name, !.type = "CNAME", !.content = content,
                                    !.ttl = ttl, !.proxied = proxied],
        set_cname_record(Ctx(fails), name, content, ttl, proxied))

SetTxtRecord(name, content, ttl, fails) ==
    Ran("set_txt", [NoArgs EXCEPT !.name = name, !.type = "TXT", !.content = content,
                                  !.ttl = ttl],
        set_txt_record(Ctx(fails), name, content, ttl))

SetCaaRecord(name, tag, value, flags, ttl, fails) ==
    Ran("set_caa", [NoArgs EXCEPT !.name = name, !.type = "CAA", !.tag = tag,
                                  !.value = value, !.ttl = ttl],
        set_caa_record(Ctx(fails), name, tag, value, flags, ttl))

\* the list get_dns_records returned, kept as the fetched list
AsFetched(r) == Ret([r.c EXCEPT !.fetched = r.ret], r.ret = << >>)

GetDnsRecords(name, record_type, fails) ==
    Ran("get", [NoArgs EXCEPT !.name = name, !.type = record_type],
        AsFetched(get_dns_records(Ctx(fails), name, record_type)))

CreateDnsRecord(name, type, content, ttl, proxied, fails) ==
    Ran("create", [NoArgs EXCEPT !.name = name, !.type = type, !.content = content,
                                 !.ttl = ttl, !.proxied = proxied],
        create_dns_record(Ctx(fails), DNSRecord(name, type, content, ttl, proxied)))

DeleteDnsRecord(record_id, domain, fails) ==
    Ran("delete", [NoArgs EXCEPT !.name = domain, !.id = record_id],
        delete_dns_record(Ctx(fails), record_id, domain))

CreateCaaRecord(name, tag, value, flags, ttl, fails) ==
    Ran("create_caa", [NoArgs EXCEPT !.name = name, !.type = "CAA", !.tag = tag,
                                     !.value = value, !.ttl = ttl],
        create_caa_record(Ctx(fails), CAARecord(name, flags, tag, value, ttl)))

-----------------------------------------------------------------------------
(* The account, the names and the values the handlers are run on *)

ExampleCom == <<"example", "com">>
SubExampleCom == <<"sub", "example", "com">>
OtherOrg == <<"other", "org">>
AExampleCom == <<"a", "example", "com">>
ASubExampleCom == <<"a", "sub", "example", "com">>
AOtherOrg == <<"a", "other", "org">>

ZExample == [id |-> "z1", name |-> ExampleCom]
ZSub == [id |-> "z2", name |-> SubExampleCom]
ZOther == [id |-> "z3", name |-> OtherOrg]

Providers == {"cloudflare", "linode"}
AllProviders == Providers \cup {"namecheap"}
Tags == {"issue", "issuewild"}
CaaValues == {Plain("ca1.example"), Plain("ca2.example")}
IPs == {Plain("192.0.2.1"), Plain("192.0.2.2")}
Targets == {Plain("t1.example.net"), Plain("t2.example.net")}
Texts == {Plain("hello"), Quote(Plain("hello")), Plain("bye")}
TTLs == {60}

\* the record name the provider stores for fqdn in the zone named zone_name:
\* Cloudflare keeps the FQDN, Linode the labels in front of the zone (none for
\* the zone itself), Namecheap the same with "@" for the domain itself
NativeName(p, fqdn, zone_name) ==
    IF p = "cloudflare" THEN fqdn
    ELSE IF fqdn = zone_name THEN (IF p = "linode" THEN << >> ELSE <<"@">>)
    ELSE SubSeq(fqdn, 1, Len(fqdn) - Len(zone_name))

\* the content the provider stores: Cloudflare keeps a CAA record's fields in
\* data, Linode its value in target, Namecheap "flags tag value" in Address
NativeContent(p, t) ==
    IF t.type # "CAA" THEN t.content
    ELSE IF p = "cloudflare" THEN Plain("caa")
    ELSE IF p = "linode" THEN t.data.value
    ELSE [s |-> <<"0", t.data.tag>> \o t.data.value.s, q |-> 0]

\* a stored record of zone z, as the provider p holds it
Native(p, z, t, id) ==
    [id |-> id, zone |-> z.id, name |-> NativeName(p, t.name, z.name), type |-> t.type,
     content |-> NativeContent(p, t), ttl |-> 60, proxied |-> FALSE,
     data |-> IF p = "namecheap" THEN NoData ELSE t.data]

CaaTemplate(name, tag, value) ==
    [name |-> name, type |-> "CAA", content |-> value,
     data |-> [flags |-> 0, tag |-> tag, value |-> value]]

Template(name, type, content) ==
    [name |-> name, type |-> type, content |-> content, data |-> NoData]

SetTemplates ==
    {Template(AExampleCom, "A", ip) : ip \in IPs}
    \cup {Template(AExampleCom, "CNAME", t) : t \in Targets}
    \cup {Template(AExampleCom, "TXT", t) : t \in Texts}
    \cup {Template(ExampleCom, "A", Plain("192.0.2.1"))}

InitCommon ==
    /\ nextId = Len(records) + 1
    /\ zone_id = NoZone
    /\ zone_domain = NoDomain
    /\ call = NoCall
    /\ reqLog = << >>
    /\ pre = NoPre
    /\ prevCall = [call |-> NoCall, log |-> << >>, before |-> << >>]
    /\ nOps = 0
    /\ environ = EnvironOf(provider)
    /\ factory = FactoryRan(Some(provider), create_provider(EnvironOf(provider), Some(provider)))
    /\ procs = [p \in Procs |-> NoProc]
    /\ certman = NoMain

Init ==
    /\ provider \in Providers
    /\ zonePages = << <<ZExample>> >>
    /\ \E k \in 0 .. MaxRecs : \E f \in [1 .. k -> SetTemplates] :
           /\ \A i, j \in 1 .. k : i # j => f[i] # f[j]
           /\ records = [i \in 1 .. k |-> Native(provider, ZExample, f[i], i)]
    /\ InitCommon

Next ==
    \/ \E ip \in IPs, ttl \in TTLs, fails \in FailSets :
           SetARecord(AExampleCom, ip, ttl, FALSE, fails)
    \/ \E t \in Targets, ttl \in TTLs, fails \in FailSets :
           SetCnameRecord(AExampleCom, t, ttl, FALSE, fails)
    \/ \E t \in Texts, ttl \in TTLs, fails \in FailSets :
           SetTxtRecord(AExampleCom, t, ttl, fails)

Spec == Init /\ [][Next]_vars

\* CAA reconciliation, on the three adapters
CaaTemplates ==
    {CaaTemplate(AExampleCom, tag, v) : tag \in Tags, v \in CaaValues}
    \cup {Template(AExampleCom, "A", Plain("192.0.2.1"))}

InitCaa ==
    /\ provider \in AllProviders
    /\ zonePages = << <<ZExample>> >>
    /\ \E k \in 0 .. MaxRecs : \E f \in [1 .. k -> CaaTemplates] :
           /\ \A i, j \in 1 .. k : i # j => f[i] # f[j]
           /\ records = [i \in 1 .. k |-> Native(provider, ZExample, f[i], i)]
    /\ InitCommon

NextCaa ==
    \E tag \in Tags, v \in CaaValues \cup {Quote(Plain("ca1.example"))},
       ttl \in TTLs, fails \in FailSets :
        SetCaaRecord(AExampleCom, tag, v, 0, ttl, fails)

SpecCaa == InitCaa /\ [][NextCaa]_vars

\* Zone resolution and the zone cache: the account's zones in every order and
\* split over the pages of the listing, one A record in each zone
Zones == {ZExample, ZSub, ZOther}

ZoneOrders ==
    {s \in UNION {[1 .. k -> Zones] : k \in 0 .. MaxZones} :
        \A i, j \in DOMAIN s : i # j => s[i] # s[j]}

PageSplits(s) ==
    {<<s>>} \cup {<<SubSeq(s, 1, k), SubSeq(s, k + 1, Len(s))>> : k \in 1 .. Len(s) - 1}

ZoneNames == {AExampleCom, ASubExampleCom, AOtherOrg, ExampleCom}

InitZone ==
    /\ provider \in Providers
    /\ \E s \in ZoneOrders : zonePages \in PageSplits(s)
    /\ records = [i \in DOMAIN AllZones |->
                     Native(provider, AllZones[i],
                            Template(<<"a">> \o AllZones[i].name, "A", Plain("192.0.2.1")), i)]
    /\ InitCommon

NextZone ==
    \/ \E name \in ZoneNames, fails \in FailSets :
           GetDnsRecords(name, "A", fails)
    \/ \E name \in ZoneNames, fails \in FailSets :
           CreateDnsRecord(name, "A", Plain("192.0.2.2"), 60, FALSE, fails)
    \/ \E id \in 1 .. MaxZones, name \in ZoneNames, fails \in FailSets :
           DeleteDnsRecord(id, name, fails)
    \/ \E name \in ZoneNames, fails \in FailSets :
           CreateCaaRecord(name, "issue", Plain("ca1.example"), 0, 60, fails)

SpecZone == InitZone /\ [][NextZone]_vars

-----------------------------------------------------------------------------
(* What the properties are stated with *)

\* every request of a log got a successful response
Clean(log) == \A i \in DOMAIN log : log[i].ok

\* the calls of primitive op among calls
CallsOf(calls, op) == SelectSeq(calls, LAMBDA k : k.op = op)

NoMutation(calls) ==
    /\ CallsOf(calls, "delete") = << >>
    /\ CallsOf(calls, "create") = << >>
    /\ CallsOf(calls, "create_caa") = << >>

\* the owned zones that equal fqdn or are a dot-suffix of it
MatchingZones(fqdn) ==
    {z \in {AllZones[i] : i \in DOMAIN AllZones} :
        z.name = fqdn \/ EndsWithDot(fqdn, z.name)}

\* the one with the longest name
LongestZone(fqdn) ==
    CHOOSE z \in MatchingZones(fqdn) :
        \A y \in MatchingZones(fqdn) : StrLen(y.name) <= StrLen(z.name)

\* the provider's records of one type at the name fqdn, in listing order
RecsAt(recs, fqdn, type) ==
    IF MatchingZones(fqdn) = {} THEN << >>
    ELSE SelectSeq(recs, LAMBDA r :
             /\ r.zone = LongestZone(fqdn).id
             /\ r.name = NativeName(provider, fqdn, LongestZone(fqdn).name)
             /\ r.type = type)

HasContent(recs, content) == \E i \in DOMAIN recs : recs[i].content = content

-----------------------------------------------------------------------------
(* C1: set_a_record twice *)

C1_TwoCleanCalls ==
    /\ call.op = "set_a"
    /\ prevCall.call.op = "set_a"
    /\ prevCall.call.args = call.args
    /\ Clean(prevCall.log)
    /\ Clean(reqLog)

\* C1 as stated: for every initial set of A records at the name, with every
\* provider call succeeding, two consecutive set_a_record(name, ip) leave exactly
\* one A record at the name, with content ip, and the second call makes no
\* delete and no create call.
C1_ExactlyOneAfterTwoCalls ==
    C1_TwoCleanCalls =>
        /\ Len(RecsAt(records, call.args.name, "A")) = 1
        /\ HasContent(RecsAt(records, call.args.name, "A"), call.args.content)
        /\ NoMutation(call.calls)

-----------------------------------------------------------------------------
(* C2: the no-op of set_a_record *)

\* C2 as stated: if any A record fetched at the name already has content ip,
\* set_a_record returns true and makes no delete call and no create call,
\* whatever the position of the matching record in the fetched list.
C2_MatchAnywhereIsNoOp ==
    (call.op = "set_a" /\ HasContent(call.fetched, call.args.content)) =>
        /\ call.ret = TRUE
        /\ NoMutation(call.calls)

-----------------------------------------------------------------------------
(* C3: what a successful set leaves *)

\* the stored content is the requested one (a TXT value is stored in quotes)
StoredAs(type, content) ==
    IF type = "TXT" THEN {content, Quote(content)} ELSE {content}

\* C3 as stated: whenever set_a_record, set_cname_record or set_txt_record
\* returns true, the provider holds exactly one record of that type at the name
\* and its content is the requested content, also when a delete call made
\* during the operation reported failure.
C3_TrueMeansExactlyOne ==
    (call.op \in {"set_a", "set_cname", "set_txt"} /\ ~call.raised /\ call.ret = TRUE) =>
        /\ Len(RecsAt(records, call.args.name, call.args.type)) = 1
        /\ RecsAt(records, call.args.name, call.args.type)[1].content
               \in StoredAs(call.args.type, call.args.content)

-----------------------------------------------------------------------------
(* C7: TXT quoting *)

QuotedMatches ==
    {i \in DOMAIN call.fetched : call.fetched[i].content = Quote(call.args.content)}

-----------------------------------------------------------------------------
(* C4, C5, C6: set_caa_record *)

\* tag and value of a stored CAA record, read from where the provider keeps them
StoredTag(r) == IF provider = "namecheap" THEN r.content.s[2] ELSE r.data.tag
StoredValue(r) ==
    IF provider = "cloudflare" THEN r.data.value
    ELSE IF provider = "linode" THEN r.content
    ELSE [s |-> SubSeq(r.content.s, 3, Len(r.content.s)), q |-> 0]

SameTagFetched ==
    {i \in DOMAIN call.fetched :
        call.fetched[i].data # NoData /\ call.fetched[i].data.tag = call.args.tag}

SameTagAndValueFetched ==
    {i \in SameTagFetched : call.fetched[i].data.value = call.args.value}

DeletedIds == {call.calls[k].arg.id : k \in {j \in DOMAIN call.calls : call.calls[j].op = "delete"}}

SameTagStored(recs) ==
    SelectSeq(RecsAt(recs, call.args.name, "CAA"), LAMBDA r : StoredTag(r) = call.args.tag)

C4_Case ==
    /\ call.op = "set_caa"
    /\ provider \in Providers
    /\ SameTagFetched # {}
    /\ SameTagAndValueFetched = {}

StillStored(recs, r) ==
    \E j \in DOMAIN recs : [recs[j] EXCEPT !.id = r.id] = r

\* C5 as stated: set_caa_record(name, T, V) never makes a delete call for a CAA
\* record at the name whose tag differs from T, and every CAA record at the name
\* with another tag that existed before the call exists unchanged after it, on
\* every adapter.
C5_OtherTagsUntouched ==
    call.op = "set_caa" =>
        /\ \A i \in DOMAIN call.fetched :
               call.fetched[i].id \in DeletedIds => i \in SameTagFetched
        /\ \A j \in DOMAIN pre.records :
               (/\ pre.records[j].type = "CAA"
                /\ pre.records[j].name = NativeName(provider, call.args.name, ExampleCom)
                /\ StoredTag(pre.records[j]) # call.args.tag)
               => StillStored(records, pre.records[j])

\* C6 as stated: if a CAA record with tag T and value V is fetched at the name,
\* set_caa_record(name, T, V) returns true and makes no delete and no create
\* call, whatever other CAA records with tag T are at the name and in whatever
\* order they are fetched.
C6_SameTagValueIsNoOp ==
    (call.op = "set_caa" /\ SameTagAndValueFetched # {}) =>
        /\ ~call.raised
        /\ call.ret = TRUE
        /\ NoMutation(call.calls)

-----------------------------------------------------------------------------
(* C8, C9, C10: zone resolution and the zone cache *)

ListingRequests == SelectSeq(reqLog, LAMBDA q : q.kind = "list_zones")

\* requests about records, as opposed to those that list or describe zones
RecordRequests ==
    SelectSeq(reqLog, LAMBDA q : q.kind \notin {"list_zones", "zone_detail"})

Primitive == call.op \in {"get", "create", "delete", "create_caa"}

EmptyCacheBefore == pre.zone_id = NoZone /\ pre.zone_domain = NoDomain

\* C8 as stated: on an adapter with an empty zone cache, an operation on an FQDN
\* resolves it to the owned zone with the longest name that equals the FQDN or is
\* a dot-suffix of it, whatever the order and the page in which the account's
\* zones are listed (the zone listing requests succeeding).
C8_LongestSuffixZone ==
    (/\ Primitive
     /\ EmptyCacheBefore
     /\ Clean(ListingRequests)
     /\ MatchingZones(call.args.name) # {})
    => /\ zone_id = LongestZone(call.args.name).id
       /\ \A i \in DOMAIN RecordRequests :
              RecordRequests[i].zone = LongestZone(call.args.name).id

\* C9 as stated: after any earlier operations on the adapter instance, when no
\* owned zone matches the requested name, get_dns_records returns an empty list,
\* create_dns_record, delete_dns_record and create_caa_record return false, none
\* raises, and no record request is sent for any zone.
C9_NoZoneFailsClosed ==
    (Primitive /\ MatchingZones(call.args.name) = {})
    => /\ ~call.raised
       /\ call.op = "get" => call.fetched = << >>
       /\ call.op # "get" => call.ret = FALSE
       /\ RecordRequests = << >>

CachedBefore == pre.zone_id # NoZone /\ pre.zone_domain # NoDomain

CoveredBy(name, zone_name) == name = zone_name \/ EndsWithDot(name, zone_name)

\* the zones the adapter can see in the listing it reads
ListedZones ==
    IF provider = "linode" THEN {zonePages[1][i] : i \in DOMAIN zonePages[1]}
    ELSE {AllZones[i] : i \in DOMAIN AllZones}

\* C10 as stated: once a zone is cached, an operation on a name equal to or
\* under the cached zone name sends no zone-listing request and sends its record
\* requests to the cached zone id; an operation on a name outside it sends a
\* zone listing and, when a listed zone matches the name and the listing
\* succeeds, the cache afterwards holds the id and the name of one zone, which
\* covers the name.
C10_CacheReuseAndRefresh ==
    (Primitive /\ CachedBefore)
    => /\ CoveredBy(call.args.name, pre.zone_domain)
          => /\ ListingRequests = << >>
             /\ \A i \in DOMAIN RecordRequests : RecordRequests[i].zone = pre.zone_id
             /\ zone_id = pre.zone_id /\ zone_domain = pre.zone_domain
       /\ ~CoveredBy(call.args.name, pre.zone_domain)
          => /\ ListingRequests # << >>
             /\ (/\ Clean(ListingRequests)
                 /\ \E z \in ListedZones : CoveredBy(call.args.name, z.name))
                => /\ HasZone(zone_id)
                   /\ zone_domain = ZoneById(zone_id).name
                   /\ CoveredBy(call.args.name, zone_domain)

-----------------------------------------------------------------------------
(* The four primitives on a domain with host records at several names *)

BExampleCom == <<"b", "example", "com">>

HostNames == {AExampleCom, BExampleCom}

HostTemplates ==
    {Template(AExampleCom, "A", ip) : ip \in IPs}
    \cup {Template(BExampleCom, "A", Plain("192.0.2.1")),
          Template(AExampleCom, "TXT", Plain("hello")),
          CaaTemplate(AExampleCom, "issue", Plain("ca1.example"))}

InitHosts ==
    /\ provider \in AllProviders
    /\ zonePages = << <<ZExample>> >>
    /\ \E k \in 0 .. MaxRecs : \E f \in [1 .. k -> HostTemplates] :
           /\ \A i, j \in 1 .. k : i # j => f[i] # f[j]
           /\ records = [i \in 1 .. k |-> Native(provider, ZExample, f[i], i)]
    /\ InitCommon

NextHosts ==
    \/ \E name \in HostNames, type \in {NoType, "A"}, fails \in FailSets :
           GetDnsRecords(name, type, fails)
    \/ \E name \in HostNames, ip \in IPs, fails \in FailSets :
           CreateDnsRecord(name, "A", ip, 60, FALSE, fails)
    \/ \E id \in 1 .. MaxRecs, fails \in FailSets :
           DeleteDnsRecord(id, AExampleCom, fails)
    \/ \E tag \in Tags, v \in CaaValues, fails \in FailSets :
           CreateCaaRecord(AExampleCom, tag, v, 0, 60, fails)
    \/ \E ip \in IPs, fails \in FailSets :
           SetARecord(AExampleCom, ip, 60, FALSE, fails)

SpecHosts == InitHosts /\ [][NextHosts]_vars

-----------------------------------------------------------------------------
(* C11: the records get_dns_records returns *)

\* the FQDN of a stored record: Cloudflare keeps it, Linode and Namecheap keep
\* the labels in front of the zone name
StoredFqdn(r) ==
    IF provider = "cloudflare" THEN r.name
    ELSE IF r.name \in {<< >>, <<"@">>} THEN ZoneById(r.zone).name
    ELSE r.name \o ZoneById(r.zone).name

\* the records the provider held before the call under one of these ids
StoredBefore(ids) ==
    {pre.records[j] : j \in {k \in DOMAIN pre.records : pre.records[k].id \in ids}}

FetchedIds == {call.fetched[i].id : i \in DOMAIN call.fetched}

\* C11 as stated: on every adapter, get_dns_records(name, type) returns only
\* records whose name is exactly name and, with a type filter, whose type is
\* the filter's; a record of the zone at another name is never returned, and so
\* never fetched nor deleted by a set_* operation on name.
C11_OnlyRecordsAtName ==
    /\ call.op \in {"get", "set_a"} =>
           \A r \in StoredBefore(FetchedIds) :
               /\ StoredFqdn(r) = call.args.name
               /\ call.args.type # NoType => r.type = call.args.type
    /\ call.op = "set_a" =>
           \A r \in StoredBefore(DeletedIds) : StoredFqdn(r) = call.args.name

-----------------------------------------------------------------------------
(* C12: Namecheap create_dns_record rewrites the host set of the domain *)

SetHostsRequests == SelectSeq(reqLog, LAMBDA q : q.kind = "setHosts")

\* the host entry that carries a stored host record over
HostOf(r) ==
    [HostName |-> r.name, RecordType |-> r.type, Address |-> r.content, TTL |-> r.ttl]

SentHosts(q) == {q.arg.hosts[i] : i \in DOMAIN q.arg.hosts}

\* the host records of before the call that create_dns_record is to keep
OtherHostsBefore ==
    {pre.records[j] : j \in {k \in DOMAIN pre.records :
        ~(/\ StoredFqdn(pre.records[k]) = call.args.name
          /\ pre.records[k].type = call.args.type)}}

RequestedHost ==
    [HostName |-> NativeName("namecheap", call.args.name, ExampleCom),
     RecordType |-> call.args.type, Address |-> call.args.content,
     TTL |-> call.args.ttl]

\* C12 as stated: on Namecheap, create_dns_record(record) on a domain that has
\* host records ends with exactly one setHosts request, whose hosts are the
\* existing hosts without those of record's name and type, plus record; every
\* other host record is carried over, and the call returns that request's
\* success.
C12_OneSetHostsCarriesOver ==
    (provider = "namecheap" /\ call.op = "create" /\ pre.records # << >>) =>
        /\ ~call.raised
        /\ Len(SetHostsRequests) = 1
        /\ call.ret = SetHostsRequests[1].ok
        /\ SentHosts(SetHostsRequests[1])
               = {HostOf(r) : r \in OtherHostsBefore} \cup {RequestedHost}

-----------------------------------------------------------------------------
(* C13: Namecheap create_caa_record is a no-op that reports success *)

\* C13: on Namecheap, create_caa_record returns true for every input, raises
\* nothing and sends no request, whatever host records the domain holds and
\* whatever the adapter did before; the provider's records are as before.
C13_NamecheapCaaIsNoOp ==
    (provider = "namecheap" /\ call.op = "create_caa") =>
        /\ call.ret = TRUE
        /\ ~call.raised
        /\ reqLog = << >>
        /\ records = pre.records

\* create_caa_record ran on a domain with host records, after an earlier
\* operation of the adapter
C13_Witness ==
    /\ provider = "namecheap"
    /\ call.op = "create_caa"
    /\ call.ret = TRUE
    /\ pre.records # << >>
    /\ prevCall.call.op # "none"

-----------------------------------------------------------------------------
(* set_alias_record: a CNAME by default, an A record on Linode *)

\* the outcome of socket.gethostbyname(domain) when the name has no address:
\* it raises socket.gaierror (an empty answer is raised on as well)
NoAddress == [s |-> << >>, q |-> 0]

RECURSIVE alias_delete_loop(_, _, _, _)
\* for record in existing_cname_records: delete_dns_record(record.id, name)
alias_delete_loop(c, existing_cname_records, i, name) ==
    IF c.raised \/ i > Len(existing_cname_records) THEN c
    ELSE LET record == existing_cname_records[i] IN
         IF record.id # NoId
         THEN alias_delete_loop(delete_dns_record(c, record.id, name).c,
                                existing_cname_records, i + 1, name)
         ELSE alias_delete_loop(c, existing_cname_records, i + 1, name)

\* Linode set_alias_record after existing_cname_records =
\* self.get_dns_records(name, RecordType.CNAME), g being that call's outcome
linode_set_alias_record_in(g, name, ip_address, ttl) ==
    set_a_record(alias_delete_loop(g.c, g.ret, 1, name), name, ip_address, ttl, FALSE)

\* a set_alias_record that removes the CNAME records before it resolves the
\* target: a faulty variant that C15 must tell apart from the code
linode_set_alias_record_resolving_last(c, name, content, address, ttl, proxied) ==
    IF address = NoAddress
    THEN LET g == get_dns_records(c, name, "CNAME")
         IN Ret([alias_delete_loop(g.c, g.ret, 1, name) EXCEPT !.raised = TRUE], FALSE)
    ELSE linode_set_alias_record_in(get_dns_records(c, name, "CNAME"),
                                    name, address, ttl)

\* address is what gethostbyname(content) gives
linode_set_alias_record(c, name, content, address, ttl, proxied) ==
    IF address = NoAddress THEN Ret([c EXCEPT !.raised = TRUE], FALSE)
    ELSE linode_set_alias_record_in(get_dns_records(c, name, "CNAME"),
                                    name, address, ttl)

set_alias_record(c, name, content, address, ttl, proxied) ==
    IF provider = "linode"
    THEN linode_set_alias_record(c, name, content, address, ttl, proxied)
    ELSE set_cname_record(c, name, content, ttl, proxied)

\* args.value holds the address the target resolved to
SetAliasRecord(name, content, address, ttl, proxied, fails) ==
    Ran("set_alias", [NoArgs EXCEPT !.name = name, !.type = "CNAME",
                                    !.content = content, !.value = address,
                                    !.ttl = ttl, !.proxied = proxied],
        set_alias_record(Ctx(fails), name, content, address, ttl, proxied))

AliasTemplates ==
    {Template(AExampleCom, "A", ip) : ip \in IPs}
    \cup {Template(AExampleCom, "CNAME", t) : t \in Targets}

InitAlias ==
    /\ provider \in AllProviders
    /\ zonePages = << <<ZExample>> >>
    /\ \E k \in 0 .. MaxRecs : \E f \in [1 .. k -> AliasTemplates] :
           /\ \A i, j \in 1 .. k : i # j => f[i] # f[j]
           /\ records = [i \in 1 .. k |-> Native(provider, ZExample, f[i], i)]
    /\ InitCommon

NextAlias ==
    \/ \E t \in Targets, address \in IPs \cup {NoAddress}, fails \in FailSets :
           SetAliasRecord(AExampleCom, t, address, 60, FALSE, fails)
    \/ \E t \in Targets, fails \in FailSets :
           SetCnameRecord(AExampleCom, t, 60, FALSE, fails)

SpecAlias == InitAlias /\ [][NextAlias]_vars

-----------------------------------------------------------------------------
(* C14, C15: the Linode alias path *)

LinodeAlias == provider = "linode" /\ call.op = "set_alias"

CnameCreates ==
    SelectSeq(CallsOf(call.calls, "create"), LAMBDA k : k.arg.type = "CNAME")

\* C14 as stated: on Linode, a set_alias_record(name, target) that returns true
\* with the target resolved to X leaves an A record with content X at the name
\* and no CNAME record at the name, and makes no create call for a CNAME.
C14_AliasLeavesAAndNoCname ==
    (LinodeAlias /\ ~call.raised /\ call.ret = TRUE) =>
        /\ HasContent(RecsAt(records, call.args.name, "A"), call.args.value)
        /\ RecsAt(records, call.args.name, "CNAME") = << >>
        /\ CnameCreates = << >>

\* C15: on Linode, set_alias_record with a target that has no address raises,
\* and it raises before any call of a primitive and any request, so that the
\* provider's records and the adapter's zone cache are as before.
C15_UnresolvedRaisesFirst ==
    (LinodeAlias /\ call.args.value = NoAddress) =>
        /\ call.raised
        /\ call.calls = << >>
        /\ reqLog = << >>
        /\ records = pre.records
        /\ zone_id = pre.zone_id /\ zone_domain = pre.zone_domain

\* the unresolved alias on a name that holds a CNAME record
C15_Witness ==
    /\ LinodeAlias
    /\ call.args.value = NoAddress
    /\ call.raised
    /\ RecsAt(pre.records, call.args.name, "CNAME") # << >>

-----------------------------------------------------------------------------
(* C16: a failed request inside a primitive *)

\* C16 as stated: on every adapter, a call of get_dns_records,
\* create_dns_record, delete_dns_record or create_caa_record in which a request
\* failed raises nothing; get_dns_records returns the empty list and the other
\* three return false.
C16_FailedRequestIsAbsorbed ==
    (Primitive /\ ~Clean(reqLog)) =>
        /\ ~call.raised
        /\ call.op = "get" => call.fetched = << >>
        /\ call.op # "get" => call.ret = FALSE

-----------------------------------------------------------------------------
(* The four set_* operations on one name, on every adapter *)

SetAllTemplates ==
    {Template(AExampleCom, "A", ip) : ip \in IPs}
    \cup {Template(AExampleCom, "CNAME", Plain("t1.example.net")),
          Template(AExampleCom, "TXT", Plain("hello")),
          Template(AExampleCom, "TXT", Quote(Plain("hello")))}
    \cup {CaaTemplate(AExampleCom, "issue", v) : v \in CaaValues}
    \cup {CaaTemplate(AExampleCom, "issuewild", Plain("ca1.example"))}

InitSetAll ==
    /\ provider \in AllProviders
    /\ zonePages = << <<ZExample>> >>
    /\ \E k \in 0 .. MaxRecs : \E f \in [1 .. k -> SetAllTemplates] :
           /\ \A i, j \in 1 .. k : i # j => f[i] # f[j]
           /\ records = [i \in 1 .. k |-> Native(provider, ZExample, f[i], i)]
    /\ InitCommon

NextSetAll ==
    \/ \E ip \in IPs, fails \in FailSets :
           SetARecord(AExampleCom, ip, 60, FALSE, fails)
    \/ \E t \in Targets, fails \in FailSets :
           SetCnameRecord(AExampleCom, t, 60, FALSE, fails)
    \/ \E t \in Texts, fails \in FailSets :
           SetTxtRecord(AExampleCom, t, 60, fails)
    \/ \E tag \in Tags, v \in CaaValues, fails \in FailSets :
           SetCaaRecord(AExampleCom, tag, v, 0, 60, fails)

SpecSetAll == InitSetAll /\ [][NextSetAll]_vars

-----------------------------------------------------------------------------
(* C17: deletes succeeded, create failed *)

SetOps == {"set_a", "set_cname", "set_txt", "set_caa"}

\* the requests of the call that change records, in the order sent: a delete
\* call that finds its zone sends one (on Namecheap, its setHosts), and so does
\* a create call
Mutations == SelectSeq(reqLog, LAMBDA q : q.kind \in {"delete", "setHosts", "create"})

DeleteCalls == CallsOf(call.calls, "delete")

CreateCalls == SelectSeq(call.calls, LAMBDA k : k.op \in {"create", "create_caa"})

\* every delete call of the operation sent its request, and the provider
\* answered each with success
DeletesSucceeded ==
    /\ DeleteCalls # << >>
    /\ Len(Mutations) >= Len(DeleteCalls)
    /\ \A i \in 1 .. Len(DeleteCalls) :
           Mutations[i].kind \in {"delete", "setHosts"} /\ Mutations[i].ok

\* the create call was made and the provider did not store the record: its
\* request was not sent or was answered with failure
CreateFailed ==
    /\ Len(CreateCalls) = 1
    /\ ~(provider = "namecheap" /\ call.op = "set_caa")
    /\ \/ Len(Mutations) = Len(DeleteCalls)
       \/ ~Mutations[Len(Mutations)].ok

C17_Case ==
    /\ call.op \in SetOps
    /\ ~call.raised
    /\ DeletesSucceeded
    /\ CreateFailed

\* the records at the name that are what the call asked for
RequestedStored(recs) ==
    SelectSeq(RecsAt(recs, call.args.name, call.args.type), LAMBDA r :
        IF call.op = "set_caa"
        THEN StoredTag(r) = call.args.tag
             /\ StoredValue(r) \in {call.args.value, Strip(call.args.value)}
        ELSE r.content \in StoredAs(call.args.type, call.args.content))

\* C17: in set_a_record, set_cname_record, set_txt_record and set_caa_record,
\* when every delete of a stale record succeeded and the create that follows
\* failed, the operation returns false, none of the deleted records is held by
\* the provider afterwards, and the name holds no record of the type with the
\* requested content.
C17_DeleteThenFailedCreate ==
    C17_Case =>
        /\ call.ret = FALSE
        /\ \A r \in StoredBefore(DeletedIds) : ~StillStored(records, r)
        /\ RequestedStored(records) = << >>

\* a stale A record was deleted on Cloudflare or Linode and the create failed
C17_Witness ==
    /\ C17_Case
    /\ provider \in Providers
    /\ call.op = "set_a"
    /\ call.ret = FALSE
    /\ Len(RecsAt(pre.records, call.args.name, "A")) > Len(RecsAt(records, call.args.name, "A"))

-----------------------------------------------------------------------------
(* The factory run on an environment *)

\* create_provider(provider_type): the adapter it returns replaces the one the
\* caller held; the constructors send no request
CreateProvider(provider_type) ==
    /\ nOps < MaxOps
    /\ nOps' = nOps + 1
    /\ factory' = FactoryRan(provider_type, create_provider(environ, provider_type))
    /\ provider' = factory'.built
    /\ zone_id' = NoZone
    /\ zone_domain' = NoDomain
    /\ UNCHANGED <<environ, zonePages, records, nextId, call, reqLog, pre, prevCall, procs,
                   certman>>

Secrets == {None, Some(""), Some("secret")}

ProviderNames == {None, Some(""), Some("linode"), Some("NameCheap"), Some("route53")}

Selectors ==
    {None, Some(""), Some("cloudflare"), Some("Linode"), Some("NAMECHEAP"), Some("Route53")}

InitFactory ==
    /\ environ \in {e \in [EnvNames -> Secrets \cup ProviderNames] :
                       /\ e["DNS_PROVIDER"] \in ProviderNames
                       /\ \A v \in EnvNames \ {"DNS_PROVIDER"} : e[v] \in Secrets}
    /\ factory = NoFactory
    /\ provider = "none"
    /\ zonePages = << <<ZExample>> >>
    /\ records = << >>
    /\ nextId = 1
    /\ zone_id = NoZone
    /\ zone_domain = NoDomain
    /\ call = NoCall
    /\ reqLog = << >>
    /\ pre = NoPre
    /\ prevCall = [call |-> NoCall, log |-> << >>, before |-> << >>]
    /\ nOps = 0
    /\ procs = [p \in Procs |-> NoProc]
    /\ certman = NoMain

NextFactory == \E provider_type \in Selectors : CreateProvider(provider_type)

SpecFactory == InitFactory /\ [][NextFactory]_vars

-----------------------------------------------------------------------------
(* C18: the factory's choice *)

Supported == {"cloudflare", "linode", "namecheap"}

\* the first adapter, in table order, whose detection variable is present
FirstPresent ==
    IF environ["CLOUDFLARE_API_TOKEN"] # None THEN Some("cloudflare")
    ELSE IF environ["LINODE_API_TOKEN"] # None THEN Some("linode")
    ELSE IF environ["NAMECHEAP_API_KEY"] # None THEN Some("namecheap")
    ELSE None

\* the name the choice goes by when a selector counts as given, and
\* DNS_PROVIDER as set, as soon as it is not None
NamedWhenPresent ==
    IF factory.selector # None THEN Some(Lower(factory.selector[1]))
    ELSE IF environ["DNS_PROVIDER"] # None THEN Some(Lower(environ["DNS_PROVIDER"][1]))
    ELSE FirstPresent

\* the same when only a non-empty string counts
NamedWhenNonEmpty ==
    IF Truthy(factory.selector) THEN Some(Lower(factory.selector[1]))
    ELSE IF Truthy(environ["DNS_PROVIDER"]) THEN Some(Lower(environ["DNS_PROVIDER"][1]))
    ELSE FirstPresent

\* the factory looked up the adapter so named, or failed without building one
\* when there is no name or the name is not a supported provider
ChoiceIs(named) ==
    IF named # None /\ named[1] \in Supported
    THEN factory.chosen = named[1]
    ELSE factory.chosen = "none" /\ factory.raised /\ factory.built = "none"

\* C18 as stated: the factory chooses the adapter named by the selector
\* (case-insensitively) when one is given, else the one named by DNS_PROVIDER
\* when that variable is set, else the first of cloudflare, linode, namecheap
\* whose detection variable is present; with no name, or an unsupported one,
\* creation fails and no adapter is built.
C18_ChoiceAsStated == factory.op = "create" => ChoiceIs(NamedWhenPresent)

\* C18, amended: the same with "given" and "set" read as "holds a non-empty
\* string": an empty selector falls through to DNS_PROVIDER and an empty
\* DNS_PROVIDER to detection, where a variable that is present but empty still
\* counts; the name from DNS_PROVIDER is compared case-insensitively too.
C18_ChoiceOfNonEmptyName == factory.op = "create" => ChoiceIs(NamedWhenNonEmpty)

\* an empty selector and an empty DNS_PROVIDER, and Linode detected
C18_Witness ==
    /\ factory.op = "create"
    /\ factory.selector = Some("")
    /\ environ["DNS_PROVIDER"] = Some("")
    /\ environ["CLOUDFLARE_API_TOKEN"] = None
    /\ factory.chosen = "linode"
    /\ factory.built = "linode"

-----------------------------------------------------------------------------
(* C19: no adapter without its credentials *)

HasCredentials(name) == \A v \in Credentials(name) : Truthy(environ[v])

\* C19: when the adapter the factory chose lacks a credential (the variable is
\* unset or empty), its constructor raises, no adapter is returned and no
\* request is sent; an adapter that was built has every credential it needs,
\* also when it was picked by detection.
C19_NoAdapterWithoutCredentials ==
    factory.op = "create" =>
        /\ (factory.chosen # "none" /\ ~HasCredentials(factory.chosen)) =>
               /\ factory.raised
               /\ factory.built = "none"
               /\ provider = "none"
               /\ reqLog = << >>
        /\ factory.built # "none" =>
               /\ HasCredentials(factory.built)
               /\ provider = factory.built

\* Namecheap picked by detection through its API key, the user name unset
C19_Witness ==
    /\ factory.op = "create"
    /\ ~Truthy(factory.selector)
    /\ ~Truthy(environ["DNS_PROVIDER"])
    /\ factory.chosen = "namecheap"
    /\ Truthy(environ["NAMECHEAP_API_KEY"])
    /\ environ["NAMECHEAP_USERNAME"] = None
    /\ factory.raised

-----------------------------------------------------------------------------
(* Two processes in set_a_record on the same name *)

RaceName == AExampleCom

\* the context of a request of process p: its own adapter's zone cache, the
\* provider's records as they are now; every request is answered
CtxOf(p) ==
    [Ctx({}) EXCEPT !.zone_id = procs[p].zone_id, !.zone_domain = procs[p].zone_domain]

\* process p made a call of a primitive that ended as r, and is then at q
RaceStep(p, r, q) ==
    /\ records' = r.c.recs
    /\ nextId' = r.c.nextId
    /\ procs' = [procs EXCEPT ![p] = [q EXCEPT !.zone_id = r.c.zone_id,
                                               !.zone_domain = r.c.zone_domain,
                                               !.raised = r.c.raised]]
    /\ UNCHANGED <<provider, zonePages, zone_id, zone_domain, call, reqLog, pre,
                   prevCall, environ, factory, certman>>

\* existing_records = self.get_dns_records(name, RecordType.A)
RaceFetch(p, ip_address) ==
    /\ procs[p].pc = "start"
    /\ nOps < MaxOps
    /\ nOps' = nOps + 1
    /\ RaceStep(p, get_dns_records(CtxOf(p), RaceName, "A"),
                [procs[p] EXCEPT !.pc = "loop", !.ip = ip_address,
                                 !.existing = get_dns_records(CtxOf(p), RaceName, "A").ret,
                                 !.i = 1])

\* one turn of the for loop: return True on a record with the same IP, else
\* delete the record
RaceLoop(p) ==
    /\ procs[p].pc = "loop"
    /\ ~procs[p].raised
    /\ procs[p].i <= Len(procs[p].existing)
    /\ UNCHANGED nOps
    /\ IF procs[p].existing[procs[p].i].content = procs[p].ip
       THEN RaceStep(p, Ret(CtxOf(p), TRUE),
                     [procs[p] EXCEPT !.pc = "done", !.ret = TRUE])
       ELSE IF procs[p].existing[procs[p].i].id # NoId
       THEN RaceStep(p, delete_dns_record(CtxOf(p), procs[p].existing[procs[p].i].id,
                                          RaceName),
                     [procs[p] EXCEPT !.i = @ + 1])
       ELSE RaceStep(p, Ret(CtxOf(p), FALSE), [procs[p] EXCEPT !.i = @ + 1])

\* return self.create_dns_record(new_record)
RaceCreate(p) ==
    /\ procs[p].pc = "loop"
    /\ ~procs[p].raised
    /\ procs[p].i > Len(procs[p].existing)
    /\ UNCHANGED nOps
    /\ RaceStep(p, create_dns_record(CtxOf(p), DNSRecord(RaceName, "A", procs[p].ip,
                                                         60, FALSE)),
                [procs[p] EXCEPT
                    !.pc = "done",
                    !.ret = create_dns_record(CtxOf(p), DNSRecord(RaceName, "A",
                                                                  procs[p].ip, 60,
                                                                  FALSE)).ret,
                    !.created = TRUE,
                    !.racing = procs[Other(p)].pc # "start"])

RaceTemplates ==
    {Template(AExampleCom, "A", ip) : ip \in IPs \cup {Plain("192.0.2.3")}}
    \cup {Template(AExampleCom, "TXT", Plain("hello"))}

InitRace ==
    /\ provider \in Providers
    /\ zonePages = << <<ZExample>> >>
    /\ \E k \in 0 .. MaxRecs : \E f \in [1 .. k -> RaceTemplates] :
           /\ \A i, j \in 1 .. k : i # j => f[i] # f[j]
           /\ records = [i \in 1 .. k |-> Native(provider, ZExample, f[i], i)]
    /\ InitCommon

NextRace ==
    \E p \in Procs :
        \/ \E ip \in IPs : RaceFetch(p, ip)
        \/ RaceLoop(p)
        \/ RaceCreate(p)

SpecRace == InitRace /\ [][NextRace]_vars

-----------------------------------------------------------------------------
(* C20: the race of two set_a_record calls *)

BothReturnedTrue ==
    \A p \in Procs : procs[p].pc = "done" /\ ~procs[p].raised /\ procs[p].ret = TRUE

\* both processes fetched before either called create, and both called it
BothFetchedBeforeCreate == \A p \in Procs : procs[p].created /\ procs[p].racing

\* the stored A records at the name whose content is ip
StoredWith(ip) ==
    {r.id : r \in {records[j] : j \in
        {k \in DOMAIN records :
            /\ records[k].type = "A"
            /\ StoredFqdn(records[k]) = RaceName
            /\ records[k].content = ip}}}

\* C20: on Cloudflare and Linode, when two processes run set_a_record on the
\* same name, both fetch before either creates and both return true, the name
\* holds more than one A record afterwards: two records with the same content
\* when the two IPs are equal, one record for each IP when they differ.
C20_RaceLeavesTwoRecords ==
    (BothReturnedTrue /\ BothFetchedBeforeCreate) =>
        IF procs["p1"].ip = procs["p2"].ip
        THEN Cardinality(StoredWith(procs["p1"].ip)) >= 2
        ELSE StoredWith(procs["p1"].ip) # {} /\ StoredWith(procs["p2"].ip) # {}

\* duplicates: both processes asked for the same IP and two records hold it
C20_Witness ==
    /\ BothReturnedTrue
    /\ BothFetchedBeforeCreate
    /\ procs["p1"].ip = procs["p2"].ip
    /\ Cardinality(StoredWith(procs["p1"].ip)) = 2

\* conflicting records: the processes asked for different IPs and both are held
C20_Conflicting ==
    /\ BothReturnedTrue
    /\ BothFetchedBeforeCreate
    /\ procs["p1"].ip # procs["p2"].ip
    /\ StoredWith(procs["p1"].ip) # {}
    /\ StoredWith(procs["p2"].ip) # {}

-----------------------------------------------------------------------------
(* C21: the zone used after earlier operations *)

\* C21 as stated: after any earlier operations on one adapter instance, the
\* record requests of an operation on a name go to the longest owned zone that
\* equals the name or is a dot-suffix of it; an earlier operation on a name in
\* example.com does not make an operation on a.sub.example.com use example.com
\* when sub.example.com is owned too.
C21_LongestZoneAfterHistory ==
    (Primitive /\ MatchingZones(call.args.name) # {}) =>
        \A i \in DOMAIN RecordRequests :
            RecordRequests[i].zone = LongestZone(call.args.name).id

-----------------------------------------------------------------------------
(* The set_* operations on listings that leave out a record's id *)

OrderTemplates ==
    {Template(AExampleCom, "A", ip) : ip \in IPs}
    \cup {Template(AExampleCom, "TXT", Plain("hello")),
          CaaTemplate(AExampleCom, "issue", Plain("ca1.example"))}

\* the records in NoIds are listed without an id
InitOrder ==
    /\ provider \in AllProviders
    /\ zonePages = << <<ZExample>> >>
    /\ \E k \in 0 .. MaxRecs : \E f \in [1 .. k -> OrderTemplates], NoIds \in SUBSET (1 .. k) :
           records = [i \in 1 .. k |->
                         Native(provider, ZExample, f[i], IF i \in NoIds THEN NoId ELSE i)]
    /\ InitCommon

SpecOrder == InitOrder /\ [][NextSetAll]_vars

-----------------------------------------------------------------------------
(* C22: the order of the calls inside a set_* operation *)

-----------------------------------------------------------------------------
(* C23: the record name the Linode adapter uses *)

RequestsOf(kind) == SelectSeq(reqLog, LAMBDA q : q.kind = kind)

\* fqdn without the domain of the zone and the dot before it
StrippedName(fqdn, zone) == NativeName("linode", fqdn, ZoneById(zone).name)

\* the ids of the zone's records, as they were before the call, that are held
\* under the stripped name and pass the type filter
IdsUnderStrippedName(zone) ==
    {pre.records[j].id : j \in {k \in DOMAIN pre.records :
        /\ pre.records[k].zone = zone
        /\ pre.records[k].name = StrippedName(call.args.name, zone)
        /\ (call.args.type = NoType \/ pre.records[k].type = call.args.type)}}

\* C23 as stated: on Linode, a create for an FQDN inside the resolved zone
\* sends the FQDN without the zone's domain as the record name, and a fetch
\* matches the zone's records by that name, also when the request for the
\* zone's details fails; the whole FQDN is never used as the record name.
C23_LinodeStrippedName ==
    (provider = "linode" /\ Primitive) =>
        /\ \A i \in DOMAIN RequestsOf("create") :
               RequestsOf("create")[i].arg.name
                   = StrippedName(call.args.name, RequestsOf("create")[i].zone)
        /\ \A i \in DOMAIN RequestsOf("get_records") :
               (call.op = "get" /\ RequestsOf("get_records")[i].ok) =>
                   FetchedIds = IdsUnderStrippedName(RequestsOf("get_records")[i].zone)

-----------------------------------------------------------------------------
(* C24: what the Cloudflare create request of set_a_record carries *)

ProxiedTTLs == {60, 300}

ProxiedTemplates ==
    {Template(AExampleCom, "A", ip) : ip \in IPs}
    \cup {Template(AExampleCom, "CNAME", t) : t \in Targets}

InitProxied ==
    /\ provider = "cloudflare"
    /\ zonePages = << <<ZExample>> >>
    /\ \E k \in 0 .. MaxRecs : \E f \in [1 .. k -> ProxiedTemplates] :
           /\ \A i, j \in 1 .. k : i # j => f[i] # f[j]
           /\ records = [i \in 1 .. k |-> Native(provider, ZExample, f[i], i)]
    /\ InitCommon

NextProxied ==
    \/ \E ip \in IPs, ttl \in ProxiedTTLs, proxied \in BOOLEAN, fails \in FailSets :
           SetARecord(AExampleCom, ip, ttl, proxied, fails)
    \/ \E t \in Targets, ttl \in ProxiedTTLs, proxied \in BOOLEAN, fails \in FailSets :
           SetCnameRecord(AExampleCom, t, ttl, proxied, fails)

SpecProxied == InitProxied /\ [][NextProxied]_vars

\* C24 as stated: on Cloudflare, the create request that set_a_record sends
\* carries the requested address, the requested ttl and the requested proxied
\* flag, whether the flag is true or false (a request without the field asks
\* for an unproxied record).
C24_CreateCarriesProxied ==
    (provider = "cloudflare" /\ call.op = "set_a") =>
        \A i \in DOMAIN RequestsOf("create") :
            /\ RequestsOf("create")[i].arg.content = call.args.content
            /\ RequestsOf("create")[i].arg.ttl = call.args.ttl
            /\ RequestsOf("create")[i].arg.proxied = call.args.proxied

\* the part of C24 about the address and the ttl
C24_CreateCarriesAddressAndTtl ==
    (provider = "cloudflare" /\ call.op = "set_a") =>
        \A i \in DOMAIN RequestsOf("create") :
            /\ RequestsOf("create")[i].arg.content = call.args.content
            /\ RequestsOf("create")[i].arg.ttl = call.args.ttl

-----------------------------------------------------------------------------
(* C25: the two fields of the Linode zone cache *)

\* C25 as stated: on Linode, whenever the cached zone id and the cached zone
\* domain are both set, they are the id and the domain of one zone.
C25_LinodeCacheOfOneZone ==
    (provider = "linode" /\ zone_id # NoZone /\ zone_domain # NoDomain) =>
        /\ HasZone(zone_id)
        /\ ZoneById(zone_id).name = zone_domain

-----------------------------------------------------------------------------
(* C26: a failed getHosts inside a Namecheap create or delete *)

GetHostsFailed ==
    \E i \in DOMAIN RequestsOf("getHosts") : ~RequestsOf("getHosts")[i].ok

\* C26 as stated: on Namecheap, a create_dns_record or delete_dns_record whose
\* getHosts request failed sends no setHosts request.
C26_NoSetHostsAfterFailedGetHosts ==
    (provider = "namecheap" /\ call.op \in {"create", "delete"} /\ GetHostsFailed) =>
        RequestsOf("setHosts") = << >>

-----------------------------------------------------------------------------
(* C27: set_caa_record called twice with the same arguments *)

\* the call before this one was the same set_caa_record call and returned true
RepeatedSetCaa ==
    /\ call.op = "set_caa"
    /\ prevCall.call.op = "set_caa"
    /\ prevCall.call.args = call.args
    /\ prevCall.call.ret /\ ~prevCall.call.raised

\* C27 as stated: on Cloudflare and Linode, a set_caa_record call that follows
\* a successful set_caa_record call with the same name, tag and value issues no
\* delete and no create, whatever the value, a value wrapped in double quotes
\* included (every request of both calls succeeding).
C27_SecondSetCaaIsNoOp ==
    (/\ provider \in {"cloudflare", "linode"}
     /\ RepeatedSetCaa
     /\ Clean(prevCall.log) /\ Clean(reqLog))
    => NoMutation(call.calls)

\* the same for the values that carry no quotes
C27_SecondSetCaaIsNoOpUnquoted ==
    (/\ provider \in {"cloudflare", "linode"}
     /\ RepeatedSetCaa
     /\ ~StartsWithQuote(call.args.value)
     /\ Clean(prevCall.log) /\ Clean(reqLog))
    => NoMutation(call.calls)

-----------------------------------------------------------------------------
(* C28: set_caa_record on Namecheap *)

CaaRecordsOf(recs) == SelectSeq(recs, LAMBDA r : r.type = "CAA")

\* C28 as stated: on Namecheap, a set_caa_record call that returns true leaves
\* the CAA records of the domain as they were; it never deletes a CAA record
\* with the requested tag and another value.
C28_NamecheapSetCaaKeepsCaa ==
    (provider = "namecheap" /\ call.op = "set_caa" /\ call.ret /\ ~call.raised) =>
        CaaRecordsOf(records) = CaaRecordsOf(pre.records)

-----------------------------------------------------------------------------
(* One run of certman.py on a machine *)

\* how the run of the certificate tool ends: it exits with a return code
\* (stdout saying or not that no renewals were attempted, stderr that the
\* arguments were not recognized), it times out, or it cannot be started
ToolRuns ==
    [kind : {"exit"}, returncode : {0, 1}, stdout_no_renewals : BOOLEAN,
     stderr_unrecognized : BOOLEAN]
    \cup [kind : {"timeout", "error"}, returncode : {1}, stdout_no_renewals : {FALSE},
          stderr_unrecognized : {FALSE}]

\* the machine: is the plugin module importable, does a pip method succeed, is
\* the certbot executable in the environment, can the credentials file be
\* written, does it exist, is there a certificate of the domain, $DOMAIN,
\* $CERTBOT_EMAIL, and the tool's run
Machines ==
    [importable : BOOLEAN, pip_ok : BOOLEAN, certbot_present : BOOLEAN,
     write_ok : BOOLEAN, credentials_file : BOOLEAN, certificate_exists : BOOLEAN,
     env_DOMAIN : {NoDomain, AExampleCom}, env_CERTBOT_EMAIL : BOOLEAN, tool : ToolRuns]

\* the command line: the action, and whether --domain and --email are given
CommandLines ==
    [action : {"obtain", "renew", "auto", "setup"}, domain : BOOLEAN, email : BOOLEAN]

\* main(args) ran to its end r on the machine w
MainRan(args, w, r) ==
    /\ certman' = [op |-> "main", args |-> args, world |-> w, steps |-> r.c.calls,
                   exit |-> r.ret.exit, returned |-> r.ret.returned,
                   result |-> r.ret.result, raised |-> r.c.raised]
    /\ zone_id' = r.c.zone_id
    /\ zone_domain' = r.c.zone_domain
    /\ reqLog' = r.c.log
    /\ UNCHANGED <<provider, zonePages, records, nextId, call, pre, prevCall, nOps,
                   environ, factory, procs>>

\* the process runs main once
Main(args, w, fails) ==
    /\ certman.op = "none"
    /\ MainRan(args, w, main(Ctx(fails), w, args))

InitCert ==
    /\ provider \in AllProviders
    /\ zonePages = << <<ZExample>> >>
    /\ records = << >>
    /\ InitCommon

NextCert ==
    /\ certman.op = "none"
    /\ \E args \in CommandLines, w \in Machines, fails \in {{}, {1}} : Main(args, w, fails)

SpecCert == InitCert /\ [][NextCert]_vars

-----------------------------------------------------------------------------
(* C29: the order of the steps of obtain_certificate *)

\* the run of main went into obtain_certificate
Obtaining ==
    /\ certman.op = "main"
    /\ certman.args.domain
    /\ certman.args.email \/ certman.world.env_CERTBOT_EMAIL
    /\ \/ certman.args.action = "obtain"
       \/ certman.args.action = "auto" /\ ~certman.world.certificate_exists

\* the three steps before the tool, in the order of the method
Preparation == <<"install_plugin", "validate_credentials", "setup_credentials">>

\* the positions in the steps at which method op returned ok
ReturnsOf(op, ok) ==
    {k \in DOMAIN certman.steps :
        certman.steps[k].op = op /\ certman.steps[k].arg = [ok |-> ok]}

\* the positions at which the certificate tool was run to issue a certificate
ToolRunsAt ==
    {k \in DOMAIN certman.steps :
        certman.steps[k].op = "run" /\ certman.steps[k].arg = [cmd |-> "certbot certonly"]}

\* C29: obtain_certificate runs the certificate tool (certbot certonly) only
\* after install_plugin, validate_credentials and setup_credentials have each
\* returned true, in that order; when one of the three returns false, that is
\* the last step: no later step is taken, the tool is not run, and the method
\* returns false.
C29_ToolAfterThreeSteps ==
    Obtaining =>
        /\ \A k \in ToolRunsAt :
               \E i \in ReturnsOf("install_plugin", TRUE),
                  j \in ReturnsOf("validate_credentials", TRUE),
                  l \in ReturnsOf("setup_credentials", TRUE) :
                   i < j /\ j < l /\ l < k
        /\ \A n \in DOMAIN Preparation : \A k \in ReturnsOf(Preparation[n], FALSE) :
               /\ k = Len(certman.steps)
               /\ ToolRunsAt = {}
               /\ \A m \in DOMAIN Preparation :
                      m > n => ReturnsOf(Preparation[m], TRUE) = {}
                               /\ ReturnsOf(Preparation[m], FALSE) = {}
               /\ certman.returned /\ certman.result = <<FALSE, FALSE>>

\* the tool was run and issued the certificate
C29_Witness ==
    /\ Obtaining /\ ToolRunsAt # {}
    /\ certman.result = <<TRUE, TRUE>> /\ certman.exit = 0

\* credential validation failed, after the plugin was installed by pip
C29_WitnessValidationFailed ==
    /\ Obtaining
    /\ ReturnsOf("install_plugin", TRUE) # {}
    /\ ReturnsOf("validate_credentials", FALSE) # {}
    /\ certman.exit = 1

-----------------------------------------------------------------------------
(* C30: a renewal that renewed nothing *)

\* the run of main went into renew_certificate and ran the tool, which exited
Renewing ==
    /\ certman.op = "main"
    /\ \E k \in DOMAIN certman.steps :
           certman.steps[k].op = "run" /\ certman.steps[k].arg = [cmd |-> "certbot renew"]
    /\ certman.world.tool.kind = "exit"

\* C30 as stated: whenever the tool's output says 'No renewals were attempted',
\* renew_certificate returns (true, false), whatever the tool's return code:
\* run_action reports that no evidence is needed and the process exits with 2.
C30_NoRenewalsMeansNoEvidence ==
    (Renewing /\ certman.world.tool.stdout_no_renewals) =>
        /\ certman.result = <<TRUE, FALSE>>
        /\ certman.exit = 2

\* the same for a tool that exits with a return code other than 0 and whose
\* stderr does not say 'unrecognized arguments'
C30_NoRenewalsAfterNonZeroExit ==
    (/\ Renewing /\ certman.world.tool.stdout_no_renewals
     /\ certman.world.tool.returncode # 0
     /\ ~certman.world.tool.stderr_unrecognized) =>
        /\ certman.result = <<TRUE, FALSE>>
        /\ certman.exit = 2

=============================================================================
